---- MODULE Spec2Model ----
(***************************************************************************)
(* CarePlan: admission of care-plan requests (rate limiter, duplicate      *)
(* detection, validation gate) and the asynchronous generation pipeline    *)
(* (Celery task generate_care_plan_task, sweep process_pending_careplans). *)
(*                                                                         *)
(* The specifications share the variables:                                 *)
(*   SpecEval     check_all_duplicates applied to every store and input    *)
(*   SpecOrders   check_all_duplicates over every Order table              *)
(*   SpecRepeat   check_all_duplicates called twice with the same arguments*)
(*   SpecGate     the POST handler views.index over every store            *)
(*   SpecWindow   views.index across consecutive minutes of one day        *)
(*   SpecLimiter  concurrent callers of check_rate_limit, step by step     *)
(*   SpecAdmit    concurrent threads inside services.create_careplan       *)
(*   SpecQueue    producers and consumers of the Redis list (queue_utils)  *)
(*   SpecTask     the workers running generate_care_plan_task              *)
(*   SpecTaskLive SpecTask with the workers' steps weakly fair             *)
(*   Spec         admission + broker + workers + sweep (the job pipeline)  *)
(*   SpecStatus   SpecTask with callers polling careplan_status            *)
(*   SpecApi      views.index and careplan_status over every store         *)
(*   SpecMiddleware  ExceptionHandlerMiddleware.process_exception          *)
(*   SpecSweep    one worker and the sweep after a failed enqueue          *)
(*   SpecSweepLive  SpecSweep with the worker and the sweep weakly fair    *)
(*   SpecResubmit views.index called repeatedly on one day                 *)
(***************************************************************************)
EXTENDS Naturals, Sequences, FiniteSets, Bags, TLC

VARIABLES
    providers,     \* Provider rows          (models.py 21-28)
    patients,      \* Patient rows           (models.py 31-40)
    orders,        \* Order rows             (models.py 43-50)
    care_plans,    \* CarePlan rows, a sequence indexed by primary key (models.py 3-18)
    cache,         \* the two rate-limit counters of the current minute and day
    broker,        \* Celery broker: bag of generate_care_plan_task messages
    tasks,         \* per worker: the task execution in flight
    request,       \* the last submission handled (or NoRequest)
    validation,    \* the ValidationResult of the last evaluation
    response,      \* the response to the last submission
    callers,       \* per request thread: its position and locals
    clock,         \* the current calendar day, as date.today() returns it
    previous,      \* the earlier call with the same arguments: its result and its day
    results,       \* result backend: what runs of generate_care_plan_task returned
    queue,         \* the Redis list 'careplan_queue' (queue_utils.py 17)
    received       \* per consumer: what its dequeue_careplan calls returned

vars == <<providers, patients, orders, care_plans, cache, broker, tasks,
          request, validation, response, callers, clock, previous,
          results, queue, received>>

store == <<providers, patients, orders>>

-----------------------------------------------------------------------------
(* Value domains                                                           *)

NPIs == {"1234567890", "9876543210"}
MRNs == {"123456", "654321"}

\* Provider names as stored and as submitted
StoredProviderNames == {"Dr. Smith", "Dr. Jones"}
SubmittedProviderNames == {"DR. SMITH", "Dr. Jones"}

\* Patient <<first_name, last_name>> as stored and as submitted
StoredPatientNames == {<<"John", "Smith">>, <<"Jane", "Doe">>}
SubmittedPatientNames ==
    {<<"John", "Smith">>, <<"JOHN", "SMITH">>, <<"Jane", "Smith">>, <<"John", "Doe">>}

\* Dates are <<year, month, day>>
DOB_1985 == <<1985, 3, 15>>
DOB_1990 == <<1990, 1, 1>>
BirthDates == {DOB_1985, DOB_1990}

Today == <<2026, 1, 15>>
Yesterday == <<2026, 1, 14>>
Tomorrow == <<2026, 1, 16>>
OrderDays == {Yesterday, Today}

StoredMedications == {"Ozempic", "Humira"}
SubmittedMedications == {"Ozempic", "OZEMPIC"}

\* Largest number of Order rows in an initial store
MaxOrders == 1

None == [none |-> TRUE]

-----------------------------------------------------------------------------
(* str.lower() and the __iexact lookup                                     *)

lower(s) ==
    CASE s = "Dr. Smith" -> "dr. smith"
      [] s = "DR. SMITH" -> "dr. smith"
      [] s = "Dr. Jones" -> "dr. jones"
      [] s = "John"      -> "john"
      [] s = "JOHN"      -> "john"
      [] s = "Jane"      -> "jane"
      [] s = "Smith"     -> "smith"
      [] s = "SMITH"     -> "smith"
      [] s = "Doe"       -> "doe"
      [] s = "Ozempic"   -> "ozempic"
      [] s = "OZEMPIC"   -> "ozempic"
      [] s = "Humira"    -> "humira"
      [] OTHER           -> s

iexact(a, b) == lower(a) = lower(b)

-----------------------------------------------------------------------------
(* exceptions.py: ErrorCodes, ValidationItem, ValidationResult             *)

DUPLICATE_NPI_MISMATCH == "DUPLICATE_NPI_MISMATCH"
PATIENT_INFO_MISMATCH == "PATIENT_INFO_MISMATCH"
\* Mutant: the code name of the earlier error taxonomy
DUPLICATE_PATIENT_SUSPECTED == "DUPLICATE_PATIENT_SUSPECTED"
POTENTIAL_DUPLICATE_PATIENT == "POTENTIAL_DUPLICATE_PATIENT"
DUPLICATE_ORDER_SAME_DAY == "DUPLICATE_ORDER_SAME_DAY"
EXISTING_MEDICATION_ORDER == "EXISTING_MEDICATION_ORDER"
RATE_LIMIT == "RATE_LIMIT"
INTERNAL_ERROR == "INTERNAL_ERROR"

\* The fixed message texts of the findings (ASCII renderings of the literals)
MSG_NPI_IN_USE == "NPI already used by another provider; verify and re-enter"
MSG_PATIENT_MISMATCH == "MRN exists but patient info differs; confirm identity"
MSG_POTENTIAL_DUPLICATE == "A patient with the same name and birth date exists; confirm"
MSG_ORDER_SAME_DAY == "An order for this medication was already created today"
MSG_EXISTING_ORDER == "The patient has earlier orders for this medication; confirm"
MSG_BAD_DOB == "Malformed date of birth; use YYYY-MM-DD"

ValidationItem(level, code, message) ==
    [level |-> level, code |-> code, message |-> message]

\* Mutant: the items list is shared between the results of successive calls
ValidationResult_shared_items ==
    [items |-> IF validation = None THEN <<>> ELSE validation.items,
     reusable_provider |-> None, reusable_patient |-> None]

ValidationResult ==
    [items |-> <<>>, reusable_provider |-> None, reusable_patient |-> None]

add_error(result, code, message) ==
    [result EXCEPT !.items = Append(@, ValidationItem("error", code, message))]

add_warning(result, code, message) ==
    [result EXCEPT !.items = Append(@, ValidationItem("warning", code, message))]

has_errors(result) ==
    \E i \in DOMAIN result.items : result.items[i].level = "error"

has_warnings(result) ==
    \E i \in DOMAIN result.items : result.items[i].level = "warning"

is_clean(result) == Len(result.items) = 0

-----------------------------------------------------------------------------
(* duplicate_detection.py                                                  *)

\* QuerySet.first(): the row of a non-empty query result, None otherwise
first(rows) == IF rows = {} THEN None ELSE CHOOSE r \in rows : TRUE

\* Mutant: the stored and the submitted name compared case-sensitively
_check_provider_case_sensitive(result, npi, name) ==
    LET existing == first({p \in providers : p.npi = npi})
    IN  IF existing = None
        THEN result
        ELSE IF existing.name = name
             THEN [result EXCEPT !.reusable_provider = existing]
             ELSE add_error(result, DUPLICATE_NPI_MISMATCH, MSG_NPI_IN_USE)

\* Mutant: the finding names the Provider that holds the npi
_check_provider_naming_existing(result, npi, name) ==
    LET existing == first({p \in providers : p.npi = npi})
    IN  IF existing = None
        THEN result
        ELSE IF lower(existing.name) = lower(name)
             THEN [result EXCEPT !.reusable_provider = existing]
             ELSE add_error(result, DUPLICATE_NPI_MISMATCH, existing.name)

_check_provider(result, npi, name) ==
    LET existing == first({p \in providers : p.npi = npi})
    IN  IF existing = None
        THEN result
        ELSE IF lower(existing.name) = lower(name)
             THEN [result EXCEPT !.reusable_provider = existing]
             ELSE add_error(result, DUPLICATE_NPI_MISMATCH, MSG_NPI_IN_USE)

\* Mutant: the names of the mrn match compared case-sensitively
_check_patient_case_sensitive(result, mrn, first_name, last_name, dob) ==
    LET existing == first({p \in patients : p.mrn = mrn})
    IN  IF existing # None
        THEN LET name_matches ==
                     /\ existing.first_name = first_name
                     /\ existing.last_name = last_name
                 dob_matches == existing.date_of_birth = dob
             IN  IF name_matches /\ dob_matches
                 THEN [result EXCEPT !.reusable_patient = existing]
                 ELSE [add_warning(result, PATIENT_INFO_MISMATCH, MSG_PATIENT_MISMATCH)
                          EXCEPT !.reusable_patient = existing]
        ELSE LET by_name_dob ==
                     first({p \in patients :
                               /\ iexact(p.first_name, first_name)
                               /\ iexact(p.last_name, last_name)
                               /\ p.date_of_birth = dob})
             IN  IF by_name_dob # None
                 THEN add_warning(result, POTENTIAL_DUPLICATE_PATIENT,
                                  MSG_POTENTIAL_DUPLICATE)
                 ELSE result

\* Mutant: an mrn match with differing info warns but is not marked reusable
_check_patient_mismatch_not_reusable(result, mrn, first_name, last_name, dob) ==
    LET existing == first({p \in patients : p.mrn = mrn})
    IN  IF existing # None
        THEN LET name_matches ==
                     /\ lower(existing.first_name) = lower(first_name)
                     /\ lower(existing.last_name) = lower(last_name)
                 dob_matches == existing.date_of_birth = dob
             IN  IF name_matches /\ dob_matches
                 THEN [result EXCEPT !.reusable_patient = existing]
                 ELSE add_warning(result, PATIENT_INFO_MISMATCH, MSG_PATIENT_MISMATCH)
        ELSE LET by_name_dob ==
                     first({p \in patients :
                               /\ iexact(p.first_name, first_name)
                               /\ iexact(p.last_name, last_name)
                               /\ p.date_of_birth = dob})
             IN  IF by_name_dob # None
                 THEN add_warning(result, POTENTIAL_DUPLICATE_PATIENT,
                                  MSG_POTENTIAL_DUPLICATE)
                 ELSE result

\* Mutant: a name and date-of-birth match under another mrn is marked reusable
_check_patient_name_dob_reused(result, mrn, first_name, last_name, dob) ==
    LET existing == first({p \in patients : p.mrn = mrn})
    IN  IF existing # None
        THEN LET name_matches ==
                     /\ lower(existing.first_name) = lower(first_name)
                     /\ lower(existing.last_name) = lower(last_name)
                 dob_matches == existing.date_of_birth = dob
             IN  IF name_matches /\ dob_matches
                 THEN [result EXCEPT !.reusable_patient = existing]
                 ELSE [add_warning(result, PATIENT_INFO_MISMATCH, MSG_PATIENT_MISMATCH)
                          EXCEPT !.reusable_patient = existing]
        ELSE LET by_name_dob ==
                     first({p \in patients :
                               /\ iexact(p.first_name, first_name)
                               /\ iexact(p.last_name, last_name)
                               /\ p.date_of_birth = dob})
             IN  IF by_name_dob # None
                 THEN [add_warning(result, POTENTIAL_DUPLICATE_PATIENT,
                                   MSG_POTENTIAL_DUPLICATE)
                          EXCEPT !.reusable_patient = by_name_dob]
                 ELSE result

_check_patient(result, mrn, first_name, last_name, dob) ==
    LET existing == first({p \in patients : p.mrn = mrn})
    IN  IF existing # None
        THEN LET name_matches ==
                     /\ lower(existing.first_name) = lower(first_name)
                     /\ lower(existing.last_name) = lower(last_name)
                 dob_matches == existing.date_of_birth = dob
             IN  IF name_matches /\ dob_matches
                 THEN [result EXCEPT !.reusable_patient = existing]
                 ELSE [add_warning(result, PATIENT_INFO_MISMATCH, MSG_PATIENT_MISMATCH)
                          EXCEPT !.reusable_patient = existing]
        ELSE LET by_name_dob ==
                     first({p \in patients :
                               /\ iexact(p.first_name, first_name)
                               /\ iexact(p.last_name, last_name)
                               /\ p.date_of_birth = dob})
             IN  IF by_name_dob # None
                 THEN add_warning(result, POTENTIAL_DUPLICATE_PATIENT,
                                  MSG_POTENTIAL_DUPLICATE)
                 ELSE result

\* Mutant: confirm is looked at before the same-day lookup
_check_order_confirm_first(result, patient, medication_name, confirm) ==
    LET same_day_order ==
            first({o \in orders :
                      /\ o.patient = patient.mrn
                      /\ iexact(o.medication_name, medication_name)
                      /\ o.created_at = clock})
        has_previous_order ==
            \E o \in orders :
                /\ o.patient = patient.mrn
                /\ iexact(o.medication_name, medication_name)
    IN  IF confirm
        THEN result
        ELSE IF same_day_order # None
             THEN add_error(result, DUPLICATE_ORDER_SAME_DAY, MSG_ORDER_SAME_DAY)
             ELSE IF has_previous_order
                  THEN add_warning(result, EXISTING_MEDICATION_ORDER, MSG_EXISTING_ORDER)
                  ELSE result

\* Mutant: the earlier-order warning is added whatever confirm is
_check_order_confirm_ignored(result, patient, medication_name, confirm) ==
    LET same_day_order ==
            first({o \in orders :
                      /\ o.patient = patient.mrn
                      /\ iexact(o.medication_name, medication_name)
                      /\ o.created_at = clock})
        has_previous_order ==
            \E o \in orders :
                /\ o.patient = patient.mrn
                /\ iexact(o.medication_name, medication_name)
    IN  IF same_day_order # None
        THEN add_error(result, DUPLICATE_ORDER_SAME_DAY, MSG_ORDER_SAME_DAY)
        ELSE IF has_previous_order
             THEN add_warning(result, EXISTING_MEDICATION_ORDER, MSG_EXISTING_ORDER)
             ELSE result

\* Mutant: the check goes on to the earlier orders after a same-day error
_check_order_without_return(result, patient, medication_name, confirm) ==
    LET same_day_order ==
            first({o \in orders :
                      /\ o.patient = patient.mrn
                      /\ iexact(o.medication_name, medication_name)
                      /\ o.created_at = clock})
        has_previous_order ==
            \E o \in orders :
                /\ o.patient = patient.mrn
                /\ iexact(o.medication_name, medication_name)
        r1 == IF same_day_order # None
              THEN add_error(result, DUPLICATE_ORDER_SAME_DAY, MSG_ORDER_SAME_DAY)
              ELSE result
    IN  IF ~confirm /\ has_previous_order
        THEN add_warning(r1, EXISTING_MEDICATION_ORDER, MSG_EXISTING_ORDER)
        ELSE r1

_check_order(result, patient, medication_name, confirm) ==
    LET today == clock
        same_day_order ==
            first({o \in orders :
                      /\ o.patient = patient.mrn
                      /\ iexact(o.medication_name, medication_name)
                      /\ o.created_at = today})
        has_previous_order ==
            \E o \in orders :
                /\ o.patient = patient.mrn
                /\ iexact(o.medication_name, medication_name)
    IN  IF same_day_order # None
        THEN add_error(result, DUPLICATE_ORDER_SAME_DAY, MSG_ORDER_SAME_DAY)
        ELSE IF confirm
             THEN result
             ELSE IF has_previous_order
                  THEN add_warning(result, EXISTING_MEDICATION_ORDER, MSG_EXISTING_ORDER)
                  ELSE result

\* Mutant: the checks stop at the first error
check_all_duplicates_short_circuit(npi, provider_name, mrn, first_name, last_name, date_of_birth, medication_name, confirm) ==
    LET r1 == _check_provider(ValidationResult, npi, provider_name)
        r2 == _check_patient(r1, mrn, first_name, last_name, date_of_birth)
    IN  IF has_errors(r1)
        THEN r1
        ELSE IF r2.reusable_patient # None
             THEN _check_order(r2, r2.reusable_patient, medication_name, confirm)
             ELSE r2

\* Mutant: the order check also runs for a name and date-of-birth match
check_all_duplicates_order_for_lookalike(npi, provider_name, mrn, first_name, last_name, date_of_birth, medication_name, confirm) ==
    LET r1 == _check_provider(ValidationResult, npi, provider_name)
        r2 == _check_patient(r1, mrn, first_name, last_name, date_of_birth)
        lookalike == first({p \in patients :
                               /\ iexact(p.first_name, first_name)
                               /\ iexact(p.last_name, last_name)
                               /\ p.date_of_birth = date_of_birth})
    IN  IF r2.reusable_patient # None
        THEN _check_order(r2, r2.reusable_patient, medication_name, confirm)
        ELSE IF lookalike # None
             THEN _check_order(r2, lookalike, medication_name, confirm)
             ELSE r2

\* Mutant: the Order check runs only for a Patient that matched without a
\* warning
check_all_duplicates_exact_match_only(npi, provider_name, mrn, first_name, last_name, date_of_birth, medication_name, confirm) ==
    LET r1 == _check_provider(ValidationResult, npi, provider_name)
        r2 == _check_patient(r1, mrn, first_name, last_name, date_of_birth)
    IN  IF r2.reusable_patient # None /\ Len(r2.items) = Len(r1.items)
        THEN _check_order(r2, r2.reusable_patient, medication_name, confirm)
        ELSE r2

check_all_duplicates(npi, provider_name, mrn, first_name, last_name, date_of_birth, medication_name, confirm) ==
    LET r1 == _check_provider(ValidationResult, npi, provider_name)
        r2 == _check_patient(r1, mrn, first_name, last_name, date_of_birth)
    IN  IF r2.reusable_patient # None
        THEN _check_order(r2, r2.reusable_patient, medication_name, confirm)
        ELSE r2

-----------------------------------------------------------------------------
(* Stores and inputs                                                       *)

ProviderRows == [npi : NPIs, name : StoredProviderNames]

PatientRows ==
    {[mrn |-> m, first_name |-> n[1], last_name |-> n[2], date_of_birth |-> d] :
        m \in MRNs, n \in StoredPatientNames, d \in BirthDates}

OrderRows ==
    [patient : MRNs, medication_name : StoredMedications, created_at : OrderDays]

\* unique=True on Provider.npi and Patient.mrn
UniqueNpi(rows) == \A a, b \in rows : a.npi = b.npi => a = b
UniqueMrn(rows) == \A a, b \in rows : a.mrn = b.mrn => a = b

ProviderTables == {ps \in SUBSET ProviderRows : UniqueNpi(ps)}
PatientTables == {ps \in SUBSET PatientRows : UniqueMrn(ps)}

\* Order.patient is a foreign key: every Order belongs to a stored Patient
OrderTables(pts) ==
    {os \in SUBSET {o \in OrderRows : \E p \in pts : p.mrn = o.patient} :
        Cardinality(os) <= MaxOrders}

\* Arguments of one call of check_all_duplicates
EvalInputs ==
    {[npi |-> n, provider_name |-> pn, mrn |-> m,
      first_name |-> nm[1], last_name |-> nm[2], date_of_birth |-> d,
      medication_name |-> med, confirm |-> c] :
        n \in NPIs, pn \in SubmittedProviderNames, m \in MRNs,
        nm \in SubmittedPatientNames, d \in BirthDates,
        med \in SubmittedMedications, c \in BOOLEAN}

NoRequest == [none |-> TRUE]
NoResponse == [none |-> TRUE]
Idle == [pc |-> "idle"]
Workers == {"w1", "w2"}

\* Request threads (inside check_rate_limit, create_careplan, enqueue_careplan)
Callers == {"c1", "c2", "c3"}
NotCalling == [pc |-> "start"]

InitStore ==
    /\ providers \in ProviderTables
    /\ patients \in PatientTables
    /\ orders \in OrderTables(patients)

InitRest ==
    /\ care_plans = <<>>
    /\ cache = [minute |-> 0, day |-> 0]
    /\ broker = EmptyBag
    /\ tasks = [w \in Workers |-> Idle]
    /\ request = NoRequest
    /\ validation = None
    /\ response = NoResponse
    /\ callers = [c \in Callers |-> NotCalling]
    /\ clock = Today
    /\ previous = None
    /\ results = {}
    /\ queue = <<>>
    /\ received = [w \in Workers |-> <<>>]

-----------------------------------------------------------------------------
(* SpecEval: check_all_duplicates as a function of store and arguments     *)

\* Mutant: the evaluation registers an unknown provider (get_or_create)
Evaluate_registering_provider ==
    \E in \in EvalInputs :
        /\ request = NoRequest
        /\ request' = in
        /\ validation' = check_all_duplicates(in.npi, in.provider_name, in.mrn,
                              in.first_name, in.last_name, in.date_of_birth,
                              in.medication_name, in.confirm)
        /\ providers' = IF \E p \in providers : p.npi = in.npi
                        THEN providers
                        ELSE providers \cup {[npi |-> in.npi, name |-> in.provider_name]}
        /\ UNCHANGED <<results, queue, received, callers, clock, previous, patients, orders, care_plans, cache, broker,
                       tasks, response>>

Evaluate ==
    \E in \in EvalInputs :
        /\ request = NoRequest
        /\ request' = in
        /\ validation' = check_all_duplicates(in.npi, in.provider_name, in.mrn,
                              in.first_name, in.last_name, in.date_of_birth,
                              in.medication_name, in.confirm)
        /\ UNCHANGED <<results, queue, received, callers, clock, previous, providers, patients, orders, care_plans, cache, broker,
                       tasks, response>>

InitEval == InitStore /\ InitRest

NextEval == Evaluate

SpecEval == InitEval /\ [][NextEval]_vars

-----------------------------------------------------------------------------
(* exceptions.py: the exceptions and custom_exception_handler              *)

ItemIsError(item) == item.level = "error"
ItemIsWarning(item) == item.level = "warning"

CodeAndMessage(items) ==
    [i \in DOMAIN items |-> [code |-> items[i].code, message |-> items[i].message]]

to_response_dict(result) ==
    LET errors == CodeAndMessage(SelectSeq(result.items, ItemIsError))
        warnings == CodeAndMessage(SelectSeq(result.items, ItemIsWarning))
    IN  [success |-> Len(errors) = 0, errors |-> errors, warnings |-> warnings]

ValidationException(validation_result) ==
    [type |-> "ValidationException", validation_result |-> validation_result]

RateLimitException(message) ==
    [type |-> "RateLimitException", message |-> message]

\* Any other exception, with its own text
OtherException(text) == [type |-> "Exception", text |-> text]

\* The exceptions rest_framework.views.exception_handler answers itself:
\* APIException and its subclasses, Http404, PermissionDenied
DRFHandled == {"APIException", "Http404", "PermissionDenied"}

\* get_object_or_404 found no row: Http404 with Django's text
Http404(text) == [type |-> "Http404", text |-> text, status_code |-> 404]

API_ERROR == "API_ERROR"

MSG_NO_CAREPLAN == "No CarePlan matches the given query."

MSG_SERVICE_UNAVAILABLE == "Service temporarily unavailable; retry later"

custom_exception_handler(exc) ==
    CASE exc.type = "ValidationException" ->
            [status |-> 422, body |-> to_response_dict(exc.validation_result)]
      [] exc.type = "RateLimitException" ->
            [status |-> 429,
             body |-> [success |-> FALSE,
                       errors |-> <<[code |-> RATE_LIMIT, message |-> exc.message]>>,
                       warnings |-> <<>>]]
      [] exc.type \in DRFHandled ->
            [status |-> exc.status_code,
             body |-> [success |-> FALSE,
                       errors |-> <<[code |-> API_ERROR, message |-> exc.text]>>,
                       warnings |-> <<>>]]
      [] OTHER ->
            [status |-> 500,
             body |-> [success |-> FALSE,
                       errors |-> <<[code |-> INTERNAL_ERROR,
                                     message |-> MSG_SERVICE_UNAVAILABLE]>>,
                       warnings |-> <<>>]]

-----------------------------------------------------------------------------
(* views.py: check_rate_limit and the POST branch of index                 *)

MINUTE_LIMIT == 15
DAY_LIMIT == 1500

MSG_RATE_MINUTE == "Too many requests; wait a moment"
MSG_RATE_DAY == "Daily quota used up; retry tomorrow"

\* Mutant: the limits are compared with > instead of >=
check_rate_limit_off_by_one ==
    LET minute_count == cache.minute
        day_count == cache.day
    IN  IF minute_count > MINUTE_LIMIT
        THEN [raised |-> RateLimitException(MSG_RATE_MINUTE), cache |-> cache]
        ELSE IF day_count > DAY_LIMIT
             THEN [raised |-> RateLimitException(MSG_RATE_DAY), cache |-> cache]
             ELSE [raised |-> None,
                   cache |-> [minute |-> minute_count + 1, day |-> day_count + 1]]

\* services.py: check_rate_limit, the same rule returning (allowed, error_msg)
services_check_rate_limit ==
    LET minute_count == cache.minute
        day_count == cache.day
    IN  IF minute_count >= 15
        THEN [allowed |-> FALSE,
              error_msg |-> "Too many requests per minute. Please wait.",
              cache |-> cache]
        ELSE IF day_count >= 1500
             THEN [allowed |-> FALSE,
                   error_msg |-> "Daily quota exceeded. Please try tomorrow.",
                   cache |-> cache]
             ELSE [allowed |-> TRUE, error_msg |-> None,
                   cache |-> [minute |-> minute_count + 1, day |-> day_count + 1]]

\* The outcome of check_rate_limit on the current counters: the exception
\* raised (or None) and the counters it leaves
check_rate_limit ==
    LET minute_count == cache.minute
        day_count == cache.day
    IN  IF minute_count >= MINUTE_LIMIT
        THEN [raised |-> RateLimitException(MSG_RATE_MINUTE), cache |-> cache]
        ELSE IF day_count >= DAY_LIMIT
             THEN [raised |-> RateLimitException(MSG_RATE_DAY), cache |-> cache]
             ELSE [raised |-> None,
                   cache |-> [minute |-> minute_count + 1, day |-> day_count + 1]]

\* datetime.strptime(s, '%Y-%m-%d').date(): None stands for ValueError
strptime(s) ==
    CASE s = "1985-03-15" -> <<1985, 3, 15>>
      [] s = "1990-01-01" -> <<1990, 1, 1>>
      [] OTHER            -> None

\* The CarePlan row that CarePlan.objects.create(...) inserts
NewCarePlan(req) ==
    [patient_first_name |-> req.patient_first_name,
     patient_last_name |-> req.patient_last_name,
     patient_dob |-> req.patient_dob,
     patient_mrn |-> req.patient_mrn,
     referring_provider |-> req.referring_provider,
     referring_provider_npi |-> req.referring_provider_npi,
     medication_name |-> req.medication_name,
     status |-> "pending",
     generated_plan |-> ""]

\* A Celery message for generate_care_plan_task(careplan_id)
TaskMessage(careplan_id, retries) == [careplan_id |-> careplan_id, retries |-> retries]

\* Mutant: the task is published twice
delay_twice(careplan_id) ==
    broker (+) SetToBag({TaskMessage(careplan_id, 0)})
           (+) SetToBag({TaskMessage(careplan_id, 0)})

\* generate_care_plan_task.delay(careplan_id)
delay(careplan_id) == broker (+) SetToBag({TaskMessage(careplan_id, 0)})

\* The submission leaves every table and the broker as they are
NothingPersisted ==
    UNCHANGED <<results, queue, received, callers, clock, previous, providers, patients, orders, care_plans, broker, tasks>>

\* check_rate_limit() raised
index_rate_limited(rl) ==
    /\ response' = custom_exception_handler(rl.raised)
    /\ validation' = None
    /\ cache' = rl.cache
    /\ NothingPersisted

\* strptime raised ValueError
index_bad_dob(rl) ==
    LET result == add_error(ValidationResult, INTERNAL_ERROR, MSG_BAD_DOB)
    IN  /\ validation' = result
        /\ response' = custom_exception_handler(ValidationException(result))
        /\ cache' = rl.cache
        /\ NothingPersisted

\* Mutant: a blocked submission gives its quota back
index_blocked_uncounted(rl, v) ==
    /\ validation' = v
    /\ response' = custom_exception_handler(ValidationException(v))
    /\ cache' = cache
    /\ NothingPersisted

\* step 3: raise ValidationException(validation)
index_blocked(rl, v) ==
    /\ validation' = v
    /\ response' = custom_exception_handler(ValidationException(v))
    /\ cache' = rl.cache
    /\ NothingPersisted

\* Mutant: only the first warning is returned
index_first_warning_only(rl, v) ==
    /\ validation' = v
    /\ response' = [status |-> 200,
                    body |-> [success |-> FALSE,
                              requires_confirmation |-> TRUE,
                              warnings |-> SubSeq(to_response_dict(v).warnings, 1, 1)]]
    /\ cache' = rl.cache
    /\ NothingPersisted

\* step 4: the confirmation request
index_requires_confirmation(rl, v) ==
    /\ validation' = v
    /\ response' = [status |-> 200,
                    body |-> [success |-> FALSE,
                              requires_confirmation |-> TRUE,
                              warnings |-> to_response_dict(v).warnings]]
    /\ cache' = rl.cache
    /\ NothingPersisted

\* Mutant: an exception of delay is swallowed and the submission answered as
\* a success
index_admit_enqueue_failure_hidden(rl, v, req, delay_ok) ==
    LET id == Len(care_plans) + 1
    IN  /\ validation' = v
        /\ care_plans' = Append(care_plans, NewCarePlan(req))
        /\ cache' = rl.cache
        /\ broker' = IF delay_ok THEN delay(id) ELSE broker
        /\ response' = [status |-> 200,
                        body |-> [success |-> TRUE, careplan_id |-> id]]
        /\ UNCHANGED <<results, queue, received, callers, clock, previous, providers, patients, orders, tasks>>

\* steps 5-7: create the CarePlan, trigger the task, answer; delay raises when
\* the broker cannot be reached (delay_ok = FALSE)
index_admit(rl, v, req, delay_ok) ==
    LET id == Len(care_plans) + 1
    IN  /\ validation' = v
        /\ care_plans' = Append(care_plans, NewCarePlan(req))
        /\ cache' = rl.cache
        /\ IF delay_ok
           THEN /\ broker' = delay(id)
                /\ response' = [status |-> 200,
                                body |-> [success |-> TRUE, careplan_id |-> id]]
           ELSE /\ broker' = broker
                /\ response' = custom_exception_handler(
                                   OtherException("broker connection refused"))
        /\ UNCHANGED <<results, queue, received, callers, clock, previous, providers, patients, orders, tasks>>

\* Largest number of CarePlan rows
MaxJobs == 1

\* Mutant: the duplicate evaluation runs before the rate limiter
index_evaluates_first(req, delay_ok) ==
    LET rl == check_rate_limit
        dob == strptime(req.patient_dob)
        v == check_all_duplicates(
                 req.referring_provider_npi, req.referring_provider,
                 req.patient_mrn, req.patient_first_name, req.patient_last_name,
                 dob, req.medication_name, req.confirm = "true")
    IN  /\ request' = req
        /\ IF dob = None THEN index_bad_dob(rl)
           ELSE IF rl.raised # None
                THEN /\ response' = custom_exception_handler(rl.raised)
                     /\ validation' = v
                     /\ cache' = rl.cache
                     /\ NothingPersisted
           ELSE IF has_errors(v) THEN index_blocked(rl, v)
           ELSE IF has_warnings(v) THEN index_requires_confirmation(rl, v)
           ELSE index_admit(rl, v, req, delay_ok)

\* Mutant: warnings are looked at before errors
index_warnings_first(req, delay_ok) ==
    LET rl == check_rate_limit
        dob == strptime(req.patient_dob)
        v == check_all_duplicates(
                 req.referring_provider_npi, req.referring_provider,
                 req.patient_mrn, req.patient_first_name, req.patient_last_name,
                 dob, req.medication_name, req.confirm = "true")
    IN  /\ request' = req
        /\ IF rl.raised # None THEN index_rate_limited(rl)
           ELSE IF dob = None THEN index_bad_dob(rl)
           ELSE IF has_warnings(v) THEN index_requires_confirmation(rl, v)
           ELSE IF has_errors(v) THEN index_blocked(rl, v)
           ELSE index_admit(rl, v, req, delay_ok)

index(req, delay_ok) ==
    LET rl == check_rate_limit
        dob == strptime(req.patient_dob)
        v == check_all_duplicates(
                 req.referring_provider_npi, req.referring_provider,
                 req.patient_mrn, req.patient_first_name, req.patient_last_name,
                 dob, req.medication_name, req.confirm = "true")
    IN  /\ request' = req
        /\ IF rl.raised # None THEN index_rate_limited(rl)
           ELSE IF dob = None THEN index_bad_dob(rl)
           ELSE IF has_errors(v) THEN index_blocked(rl, v)
           ELSE IF has_warnings(v) THEN index_requires_confirmation(rl, v)
           ELSE index_admit(rl, v, req, delay_ok)

-----------------------------------------------------------------------------
(* SpecGate: index over a family of stores and counters                    *)

GateProviderRows == {[npi |-> "1234567890", name |-> "Dr. Smith"]}
GatePatientRows ==
    {[mrn |-> "123456", first_name |-> "John", last_name |-> "Smith",
      date_of_birth |-> DOB_1985]}
GateOrderRows ==
    {[patient |-> "123456", medication_name |-> "Ozempic", created_at |-> d] :
        d \in OrderDays}

\* The submissions of SpecGate
GateRequests ==
    {[referring_provider_npi |-> "1234567890", referring_provider |-> pn,
      patient_mrn |-> m, patient_first_name |-> nm[1], patient_last_name |-> nm[2],
      patient_dob |-> d, medication_name |-> med, confirm |-> c] :
        pn \in SubmittedProviderNames, m \in MRNs,
        nm \in {<<"JOHN", "SMITH">>, <<"Jane", "Smith">>},
        d \in {"1985-03-15", "03/15/1985"},
        med \in {"OZEMPIC", "Humira"}, c \in {"true", "false"}}

\* Number of submissions the minute counter still admits initially
GateHeadroom == 2

InitGate ==
    /\ providers \in SUBSET GateProviderRows
    /\ patients \in SUBSET GatePatientRows
    /\ orders \in {os \in SUBSET GateOrderRows :
                      /\ Cardinality(os) <= MaxOrders
                      /\ \A o \in os : \E p \in patients : p.mrn = o.patient}
    /\ \E used \in (MINUTE_LIMIT - GateHeadroom)..MINUTE_LIMIT :
       \E day \in {used, DAY_LIMIT} :
            cache = [minute |-> used, day |-> day]
    /\ care_plans = <<>>
    /\ broker = EmptyBag
    /\ tasks = [w \in Workers |-> Idle]
    /\ request = NoRequest
    /\ validation = None
    /\ response = NoResponse
    /\ callers = [c \in Callers |-> NotCalling]
    /\ clock = Today
    /\ previous = None
    /\ results = {}
    /\ queue = <<>>
    /\ received = [w \in Workers |-> <<>>]

Submit ==
    /\ Len(care_plans) < MaxJobs
    /\ \E req \in GateRequests, delay_ok \in BOOLEAN : index(req, delay_ok)

NextGate == Submit

SpecGate == InitGate /\ [][NextGate]_vars

\* The wall clock passes into the next minute: minute_key (line 73) names a
\* counter that does not exist yet, so cache.get(minute_key, 0) reads 0
NextMinute ==
    /\ cache.minute # 0
    /\ cache' = [cache EXCEPT !.minute = 0]
    /\ UNCHANGED <<results, queue, received, callers, clock, previous, providers, patients,
                   orders, care_plans, broker, tasks, request, validation, response>>

NextWindow == Submit \/ NextMinute

\* The stores of InitGate, with the day's quota all but used up
InitWindow ==
    /\ providers \in SUBSET GateProviderRows
    /\ patients \in SUBSET GatePatientRows
    /\ orders \in {os \in SUBSET GateOrderRows :
                      /\ Cardinality(os) <= MaxOrders
                      /\ \A o \in os : \E p \in patients : p.mrn = o.patient}
    /\ \E minute \in {MINUTE_LIMIT - 1, MINUTE_LIMIT} :
       \E day \in {DAY_LIMIT - 1, DAY_LIMIT} :
            cache = [minute |-> minute, day |-> day]
    /\ care_plans = <<>>
    /\ broker = EmptyBag
    /\ tasks = [w \in Workers |-> Idle]
    /\ request = NoRequest
    /\ validation = None
    /\ response = NoResponse
    /\ callers = [c \in Callers |-> NotCalling]
    /\ clock = Today
    /\ previous = None
    /\ results = {}
    /\ queue = <<>>
    /\ received = [w \in Workers |-> <<>>]

\* SpecWindow: submissions to index across consecutive minutes of one day
SpecWindow == InitWindow /\ [][NextWindow]_vars

-----------------------------------------------------------------------------
(* SpecOrders: check_all_duplicates over every Order table of two          *)
(* patients; SpecRepeat: the same call made twice by one caller            *)

OrdersPatientRows ==
    {[mrn |-> "123456", first_name |-> "John", last_name |-> "Smith",
      date_of_birth |-> DOB_1985],
     [mrn |-> "654321", first_name |-> "Jane", last_name |-> "Doe",
      date_of_birth |-> DOB_1990]}

\* Largest number of Order rows in SpecOrders
MaxPatientOrders == 2

InitOrders ==
    /\ providers \in SUBSET GateProviderRows
    /\ patients \in SUBSET OrdersPatientRows
    /\ orders \in {os \in SUBSET {o \in OrderRows : \E p \in patients : p.mrn = o.patient} :
                      Cardinality(os) <= MaxPatientOrders}
    /\ InitRest

\* The caller calls check_all_duplicates a second time with the arguments of
\* the first call, keeping the first result and noting the day of this call
Reevaluate ==
    /\ request # NoRequest
    /\ previous = None
    /\ previous' = [result |-> validation, today |-> clock]
    /\ validation' = check_all_duplicates(request.npi, request.provider_name,
                          request.mrn, request.first_name, request.last_name,
                          request.date_of_birth, request.medication_name,
                          request.confirm)
    /\ UNCHANGED <<results, queue, received, providers, patients, orders, care_plans, cache, broker, tasks,
                   request, response, callers, clock>>

\* The calendar day changes between the first call, made on Today, and the
\* second
Midnight ==
    /\ request # NoRequest
    /\ previous = None
    /\ clock = Today
    /\ clock' = Tomorrow
    /\ UNCHANGED <<results, queue, received, providers, patients, orders, care_plans, cache, broker, tasks,
                   request, validation, response, callers, previous>>

NextOrders == Evaluate

SpecOrders == InitOrders /\ [][NextOrders]_vars

\* SpecRepeat: the two calls, with the day possibly changing between them
NextRepeat == Evaluate \/ Reevaluate \/ Midnight

SpecRepeat == InitOrders /\ [][NextRepeat]_vars

-----------------------------------------------------------------------------
(* SpecLimiter: concurrent request threads inside views.check_rate_limit,  *)
(* one cache operation per step, all within one minute and one day bucket  *)

\* Calls admitted in the current minute before the callers arrive
AdmittedBefore == MINUTE_LIMIT - 1

\* minute_count = cache.get(minute_key, 0); raise if minute_count >= 15
GetMinuteCount(c) ==
    /\ callers[c].pc = "start"
    /\ LET minute_count == cache.minute
       IN  callers' = [callers EXCEPT ![c] =
                          IF minute_count >= MINUTE_LIMIT
                          THEN [pc |-> "rejected"]
                          ELSE [pc |-> "minute_read", minute_count |-> minute_count]]
    /\ UNCHANGED <<results, queue, received, providers, patients, orders, care_plans, cache, broker, tasks,
                   request, validation, response, clock, previous>>

\* day_count = cache.get(day_key, 0); raise if day_count >= 1500
GetDayCount(c) ==
    /\ callers[c].pc = "minute_read"
    /\ LET day_count == cache.day
       IN  callers' = [callers EXCEPT ![c] =
                          IF day_count >= DAY_LIMIT
                          THEN [pc |-> "rejected"]
                          ELSE [pc |-> "day_read",
                                minute_count |-> callers[c].minute_count,
                                day_count |-> day_count]]
    /\ UNCHANGED <<results, queue, received, providers, patients, orders, care_plans, cache, broker, tasks,
                   request, validation, response, clock, previous>>

\* cache.set(minute_key, minute_count + 1, timeout=60)
SetMinuteCount(c) ==
    /\ callers[c].pc = "day_read"
    /\ cache' = [cache EXCEPT !.minute = callers[c].minute_count + 1]
    /\ callers' = [callers EXCEPT ![c].pc = "minute_set"]
    /\ UNCHANGED <<results, queue, received, providers, patients, orders, care_plans, broker, tasks,
                   request, validation, response, clock, previous>>

\* cache.set(day_key, day_count + 1, timeout=86400); the call returns
SetDayCount(c) ==
    /\ callers[c].pc = "minute_set"
    /\ cache' = [cache EXCEPT !.day = callers[c].day_count + 1]
    /\ callers' = [callers EXCEPT ![c] = [pc |-> "admitted"]]
    /\ UNCHANGED <<results, queue, received, providers, patients, orders, care_plans, broker, tasks,
                   request, validation, response, clock, previous>>

InitLimiter ==
    /\ providers = {}
    /\ patients = {}
    /\ orders = {}
    /\ care_plans = <<>>
    /\ cache \in {[minute |-> AdmittedBefore, day |-> AdmittedBefore],
                  [minute |-> 0, day |-> DAY_LIMIT - 1]}
    /\ broker = EmptyBag
    /\ tasks = [w \in Workers |-> Idle]
    /\ request = NoRequest
    /\ validation = None
    /\ response = NoResponse
    /\ callers = [c \in Callers |-> NotCalling]
    /\ clock = Today
    /\ previous = None
    /\ results = {}
    /\ queue = <<>>
    /\ received = [w \in Workers |-> <<>>]

NextLimiter ==
    \E c \in Callers :
        \/ GetMinuteCount(c)
        \/ GetDayCount(c)
        \/ SetMinuteCount(c)
        \/ SetDayCount(c)

SpecLimiter == InitLimiter /\ [][NextLimiter]_vars

-----------------------------------------------------------------------------
(* tasks.py: generate_care_plan_task and process_pending_careplans         *)

\* retry_kwargs={'max_retries': 3}
MAX_RETRIES == 3

\* Largest number of messages in the broker
MaxMessages == 2

\* What get_gemini_response may return
GeneratedTexts == {"care plan text", "another care plan text"}

\* CarePlan.objects.get(id=careplan_id): the row, or None for DoesNotExist
get(careplan_id) ==
    IF careplan_id \in DOMAIN care_plans THEN care_plans[careplan_id] ELSE None

\* care_plan.save(): every column of the row is written from the object
save(careplan_id, care_plan) == [care_plans EXCEPT ![careplan_id] = care_plan]

\* The dict a run of the task returns, as the result backend keeps it
TaskResult(status, careplan_id) == [status |-> status, careplan_id |-> careplan_id]

\* The locals of a run that failed in the store before it had a row
StoreRaised(careplan_id, retries) ==
    [pc |-> "store_raised", careplan_id |-> careplan_id, retries |-> retries,
     care_plan |-> None, found_status |-> "unknown"]

\* Mutant: a missing row is an error like any other and the task is retried
Deliver_missing_row_retried(w) ==
    /\ tasks[w].pc = "idle"
    /\ \E m \in BagToSet(broker), store_ok \in BOOLEAN :
        LET care_plan == get(m.careplan_id)
        IN  /\ broker' = broker (-) SetToBag({m})
            /\ tasks' = [tasks EXCEPT ![w] =
                            IF ~store_ok
                            THEN StoreRaised(m.careplan_id, m.retries)
                            ELSE IF care_plan = None
                            THEN [StoreRaised(m.careplan_id, m.retries)
                                      EXCEPT !.found_status = "DoesNotExist"]
                            ELSE [pc |-> "fetched", careplan_id |-> m.careplan_id,
                                  retries |-> m.retries, care_plan |-> care_plan,
                                  found_status |-> care_plan.status]]
            /\ results' = results
    /\ UNCHANGED <<queue, received, callers, clock, previous, providers, patients, orders, care_plans, cache,
                   request, validation, response>>

\* A worker takes a message off the broker and runs line 64. A missing row is
\* DoesNotExist: the task returns an error result and nothing is retried. Any
\* other exception of the store (store_ok = FALSE) goes to the handler of
\* lines 119-135. found_status records the status the row had at line 64.
Deliver(w) ==
    /\ tasks[w].pc = "idle"
    /\ \E m \in BagToSet(broker), store_ok \in BOOLEAN :
        LET care_plan == get(m.careplan_id)
        IN  /\ broker' = broker (-) SetToBag({m})
            /\ tasks' = [tasks EXCEPT ![w] =
                            IF ~store_ok
                            THEN StoreRaised(m.careplan_id, m.retries)
                            ELSE IF care_plan = None
                            THEN Idle
                            ELSE [pc |-> "fetched", careplan_id |-> m.careplan_id,
                                  retries |-> m.retries, care_plan |-> care_plan,
                                  found_status |-> care_plan.status]]
            /\ results' = IF store_ok /\ care_plan = None
                          THEN results \cup {TaskResult("error", m.careplan_id)}
                          ELSE results
    /\ UNCHANGED <<queue, received, callers, clock, previous, providers, patients, orders, care_plans, cache,
                   request, validation, response>>

\* Mutant: the status is changed on the object only, save() is not called
Claim_without_save(w) ==
    /\ tasks[w].pc = "fetched"
    /\ tasks' = [tasks EXCEPT ![w].pc = "claimed",
                               ![w].care_plan.status = "processing"]
    /\ UNCHANGED <<queue, received, callers, clock, previous, providers, patients, orders, results, care_plans, cache, broker,
                   request, validation, response>>

\* lines 68-69: care_plan.status = 'processing'; care_plan.save()
Claim(w) ==
    /\ tasks[w].pc = "fetched"
    /\ \E store_ok \in BOOLEAN :
        LET care_plan == [tasks[w].care_plan EXCEPT !.status = "processing"]
        IN  IF store_ok
            THEN /\ care_plans' = save(tasks[w].careplan_id, care_plan)
                 /\ tasks' = [tasks EXCEPT ![w].pc = "claimed", ![w].care_plan = care_plan]
            ELSE /\ care_plans' = care_plans
                 /\ tasks' = [tasks EXCEPT ![w].pc = "store_raised",
                                            ![w].care_plan = care_plan]
    /\ UNCHANGED <<queue, received, callers, clock, previous, providers, patients, orders, results, cache, broker,
                   request, validation, response>>

\* line 93: get_gemini_response(prompt) returns the generated text
GenerateReturns(w) ==
    /\ tasks[w].pc = "claimed"
    /\ \E generated_plan \in GeneratedTexts :
        tasks' = [tasks EXCEPT ![w].pc = "generated",
                               ![w].care_plan.generated_plan = generated_plan]
    /\ UNCHANGED <<queue, received, callers, clock, previous, providers, patients, orders, results, care_plans, cache, broker,
                   request, validation, response>>

\* line 93: get_gemini_response(prompt) raises
GenerateRaises(w) ==
    /\ tasks[w].pc = "claimed"
    /\ tasks' = [tasks EXCEPT ![w].pc = "raised"]
    /\ UNCHANGED <<queue, received, callers, clock, previous, providers, patients, orders, results, care_plans, cache, broker,
                   request, validation, response>>

\* Mutant: the status is set to 'completed' and the generated text is dropped
Complete_without_content(w) ==
    /\ tasks[w].pc = "generated"
    /\ care_plans' = save(tasks[w].careplan_id,
                          [tasks[w].care_plan EXCEPT !.status = "completed",
                                                     !.generated_plan = ""])
    /\ tasks' = [tasks EXCEPT ![w] = Idle]
    /\ results' = results \cup {TaskResult("success", tasks[w].careplan_id)}
    /\ UNCHANGED <<queue, received, callers, clock, previous, providers, patients, orders, cache, broker,
                   request, validation, response>>

\* lines 96-107: the result is saved with status 'completed' and the task
\* returns; an exception of save goes to the handler of lines 119-135
Complete(w) ==
    /\ tasks[w].pc = "generated"
    /\ \E store_ok \in BOOLEAN :
        IF store_ok
        THEN /\ care_plans' = save(tasks[w].careplan_id,
                                   [tasks[w].care_plan EXCEPT !.status = "completed"])
             /\ tasks' = [tasks EXCEPT ![w] = Idle]
             /\ results' = results \cup {TaskResult("success", tasks[w].careplan_id)}
        ELSE /\ care_plans' = care_plans
             /\ tasks' = [tasks EXCEPT ![w].pc = "store_raised"]
             /\ results' = results
    /\ UNCHANGED <<queue, received, callers, clock, previous, providers, patients, orders, cache, broker,
                   request, validation, response>>

\* Mutant: the ceiling is not tested and every failed attempt is retried
HandleFailure_always_retried(w) ==
    /\ tasks[w].pc \in {"raised", "store_raised"}
    /\ tasks[w].retries <= MAX_RETRIES
    /\ care_plans' = care_plans
    /\ broker' = broker (+) SetToBag({TaskMessage(tasks[w].careplan_id,
                                                  tasks[w].retries + 1)})
    /\ tasks' = [tasks EXCEPT ![w] = Idle]
    /\ UNCHANGED <<queue, received, callers, clock, previous, providers, patients, orders, results, cache,
                   request, validation, response>>

\* lines 119-135: at the last retry the row is re-read and saved as 'failed',
\* and whatever that get or save raises is swallowed (except: pass); the
\* exception is re-raised, and autoretry_for publishes the task again with
\* retries + 1 unless the retries are used up
HandleFailure(w) ==
    /\ tasks[w].pc \in {"raised", "store_raised"}
    /\ \E store_ok \in BOOLEAN :
        IF tasks[w].retries >= MAX_RETRIES
        THEN /\ care_plans' = IF store_ok /\ tasks[w].careplan_id \in DOMAIN care_plans
                              THEN save(tasks[w].careplan_id,
                                        [get(tasks[w].careplan_id) EXCEPT !.status = "failed"])
                              ELSE care_plans
             /\ broker' = broker
        ELSE /\ care_plans' = care_plans
             /\ broker' = broker (+) SetToBag({TaskMessage(tasks[w].careplan_id,
                                                            tasks[w].retries + 1)})
    /\ tasks' = [tasks EXCEPT ![w] = Idle]
    /\ UNCHANGED <<queue, received, callers, clock, previous, providers, patients, orders, results, cache,
                   request, validation, response>>

\* process_pending_careplans: one task per CarePlan with status 'pending'
process_pending_careplans ==
    LET pending_plans == {id \in DOMAIN care_plans : care_plans[id].status = "pending"}
    IN  /\ pending_plans # {}
        /\ BagCardinality(broker) + Cardinality(pending_plans) <= MaxMessages
        /\ broker' = broker (+) SetToBag({TaskMessage(id, 0) : id \in pending_plans})
        /\ UNCHANGED <<results, queue, received, callers, clock, previous, providers, patients, orders, care_plans, cache, tasks,
                       request, validation, response>>

-----------------------------------------------------------------------------
(* Spec: admission into an empty store, the broker, the workers, the sweep *)

PipelineRequests ==
    {[referring_provider_npi |-> "1234567890", referring_provider |-> "Dr. Smith",
      patient_mrn |-> "123456", patient_first_name |-> "John",
      patient_last_name |-> "Smith", patient_dob |-> "1985-03-15",
      medication_name |-> "Ozempic", confirm |-> "false"]}

Init ==
    /\ providers = {}
    /\ patients = {}
    /\ orders = {}
    /\ InitRest

Admission ==
    /\ Len(care_plans) < MaxJobs
    /\ \E req \in PipelineRequests, delay_ok \in BOOLEAN : index(req, delay_ok)

Worker ==
    \E w \in Workers :
        \/ Deliver(w)
        \/ Claim(w)
        \/ GenerateReturns(w)
        \/ GenerateRaises(w)
        \/ Complete(w)
        \/ HandleFailure(w)

Sweep == process_pending_careplans

Next == Admission \/ Worker \/ Sweep

Spec == Init /\ [][Next]_vars

-----------------------------------------------------------------------------
(* SpecTask: the workers after one admission. The broker holds the task of *)
(* the admitted CarePlan, once or (after a sweep) twice, or a task         *)
(* published for an id that has no row (generate_care_plan_task.delay is   *)
(* open to any caller), or both. SpecTaskLive adds that a worker with a    *)
(* step to take takes it.                                                  *)

InitTask ==
    /\ providers = {}
    /\ patients = {}
    /\ orders = {}
    /\ \E req \in PipelineRequests :
        /\ request = req
        /\ care_plans = <<NewCarePlan(req)>>
    /\ validation = ValidationResult
    /\ response = [status |-> 200, body |-> [success |-> TRUE, careplan_id |-> 1]]
    /\ cache = [minute |-> 1, day |-> 1]
    /\ broker \in {SetToBag({TaskMessage(1, 0)}),
                   SetToBag({TaskMessage(1, 0)}) (+) SetToBag({TaskMessage(1, 0)}),
                   SetToBag({TaskMessage(2, 0)}),
                   SetToBag({TaskMessage(1, 0), TaskMessage(2, 0)})}
    /\ tasks = [w \in Workers |-> Idle]
    /\ callers = [c \in Callers |-> NotCalling]
    /\ clock = Today
    /\ previous = None
    /\ results = {}
    /\ queue = <<>>
    /\ received = [w \in Workers |-> <<>>]

\* The steps of one worker process
Run(w) ==
    \/ Deliver(w)
    \/ Claim(w)
    \/ GenerateReturns(w)
    \/ GenerateRaises(w)
    \/ Complete(w)
    \/ HandleFailure(w)

NextTask == \E w \in Workers : Run(w)

SpecTask == InitTask /\ [][NextTask]_vars

\* A worker process that is running and has a step to take takes it
FairWorkers == \A w \in Workers : WF_vars(Run(w))

SpecTaskLive == InitTask /\ [][NextTask]_vars /\ FairWorkers

-----------------------------------------------------------------------------
(* SpecSweep: the sweep and the workers after an admission whose           *)
(* generate_care_plan_task.delay raised: the row of the job is stored as   *)
(* pending and no task was published for it. A second row stands for an    *)
(* earlier job in any status. SpecSweepLive adds that the workers and the  *)
(* periodic sweep run.                                                     *)

InitSweep ==
    /\ providers = {}
    /\ patients = {}
    /\ orders = {}
    /\ \E req \in PipelineRequests, status \in {"pending", "processing", "completed", "failed"} :
        /\ request = req
        /\ care_plans = <<NewCarePlan(req), [NewCarePlan(req) EXCEPT !.status = status]>>
    /\ validation = ValidationResult
    /\ response = custom_exception_handler(OtherException("broker unavailable"))
    /\ cache = [minute |-> 1, day |-> 1]
    /\ broker = EmptyBag
    /\ tasks = [w \in Workers |-> Idle]
    /\ callers = [c \in Callers |-> NotCalling]
    /\ clock = Today
    /\ previous = None
    /\ results = {}
    /\ queue = <<>>
    /\ received = [w \in Workers |-> <<>>]

\* One worker process is running
NextSweep == Run("w1") \/ Sweep

SpecSweep == InitSweep /\ [][NextSweep]_vars

\* Celery Beat runs the sweep again and again
FairSweep == WF_vars(Sweep)

SpecSweepLive == InitSweep /\ [][NextSweep]_vars /\ WF_vars(Run("w1")) /\ FairSweep

-----------------------------------------------------------------------------
(* SpecResubmit: a caller posts submissions to index one after another on  *)
(* one day, among them the same fields twice, with the counters of the     *)
(* rate limiter far from their ceilings                                    *)

\* Largest number of CarePlan rows under SpecResubmit
MaxSubmittedJobs == 2

InitResubmit ==
    /\ providers \in SUBSET GateProviderRows
    /\ patients \in SUBSET GatePatientRows
    /\ orders \in {os \in SUBSET GateOrderRows :
                      /\ Cardinality(os) <= MaxOrders
                      /\ \A o \in os : \E p \in patients : p.mrn = o.patient}
    /\ cache = [minute |-> 0, day |-> 0]
    /\ care_plans = <<>>
    /\ broker = EmptyBag
    /\ tasks = [w \in Workers |-> Idle]
    /\ request = NoRequest
    /\ validation = None
    /\ response = NoResponse
    /\ callers = [c \in Callers |-> NotCalling]
    /\ clock = Today
    /\ previous = None
    /\ results = {}
    /\ queue = <<>>
    /\ received = [w \in Workers |-> <<>>]

Resubmit ==
    /\ Len(care_plans) < MaxSubmittedJobs
    /\ cache.minute < MaxSubmittedJobs + 1
    /\ \E req \in GateRequests, delay_ok \in BOOLEAN : index(req, delay_ok)

NextResubmit == Resubmit

SpecResubmit == InitResubmit /\ [][NextResubmit]_vars

-----------------------------------------------------------------------------
(* queue_utils.py: the Redis list, enqueue_careplan and dequeue_careplan.  *)
(* SpecQueue: producer threads that each call enqueue_careplan once and    *)
(* consumers that call dequeue_careplan, in every interleaving.            *)

\* The ids the producers enqueue
QueueIds == {1, 2}

\* Largest number of dequeue_careplan calls of one consumer
MaxDequeues == 2

\* Mutant: LPUSH instead of RPUSH
rpush_at_head(careplan_id) == <<ToString(careplan_id)>> \o queue

\* r.rpush(QUEUE_NAME, careplan_id): Redis stores the id as its decimal text
\* at the right end of the list
rpush(careplan_id) == Append(queue, ToString(careplan_id))

\* enqueue_careplan(careplan_id) called by thread c: True after the RPUSH,
\* False when Redis raised (redis_ok = FALSE) and nothing was pushed
enqueue_careplan(c) ==
    /\ callers[c].pc = "start"
    /\ \E careplan_id \in QueueIds, redis_ok \in BOOLEAN :
        /\ queue' = IF redis_ok THEN rpush(careplan_id) ELSE queue
        /\ callers' = [callers EXCEPT ![c] = [pc |-> "enqueued",
                                              careplan_id |-> careplan_id,
                                              returned |-> redis_ok]]
    /\ UNCHANGED <<results, received, clock, previous, providers, patients, orders,
                   care_plans, cache, broker, tasks, request, validation, response>>

\* dequeue_careplan() called by consumer w: BLPOP with timeout=0 waits until
\* the list has an element and takes it off the left end; the value comes
\* back as text (decode_responses=True). None when Redis raised.
dequeue_careplan(w) ==
    /\ Len(received[w]) < MaxDequeues
    /\ \E redis_ok \in BOOLEAN :
        IF redis_ok
        THEN /\ queue # <<>>
             /\ received' = [received EXCEPT
                                ![w] = Append(@, [careplan_id |-> Head(queue)])]
             /\ queue' = Tail(queue)
        ELSE /\ received' = [received EXCEPT ![w] = Append(@, None)]
             /\ queue' = queue
    /\ UNCHANGED <<results, callers, clock, previous, providers, patients, orders,
                   care_plans, cache, broker, tasks, request, validation, response>>

Producer == \E c \in Callers : enqueue_careplan(c)

Consumer == \E w \in Workers : dequeue_careplan(w)

NextQueue == Producer \/ Consumer

SpecQueue == Init /\ [][NextQueue]_vars

-----------------------------------------------------------------------------
(* services.py: create_careplan, the code that persists Provider and       *)
(* Patient rows. SpecAdmit: threads inside create_careplan, one query per  *)
(* step. get_or_create is get, then on DoesNotExist an INSERT, then on     *)
(* IntegrityError (unique=True) a second get.                              *)

AdmitRequests ==
    {[referring_provider_npi |-> "1234567890", referring_provider |-> pn,
      patient_mrn |-> "123456", patient_first_name |-> nm[1],
      patient_last_name |-> nm[2], patient_dob |-> "1985-03-15",
      medication_name |-> "Ozempic"] :
        pn \in StoredProviderNames, nm \in StoredPatientNames}

\* Mutant: Provider.npi without unique=True
insert_provider_not_unique(row) ==
    [raised |-> FALSE, rows |-> providers \cup {row}]

\* INSERT INTO provider: IntegrityError when a row has the npi (models.py 24)
insert_provider(row) ==
    IF \E p \in providers : p.npi = row.npi
    THEN [raised |-> TRUE, rows |-> providers]
    ELSE [raised |-> FALSE, rows |-> providers \cup {row}]

\* INSERT INTO patient: IntegrityError when a row has the mrn (models.py 35)
insert_patient(row) ==
    IF \E p \in patients : p.mrn = row.mrn
    THEN [raised |-> TRUE, rows |-> patients]
    ELSE [raised |-> FALSE, rows |-> patients \cup {row}]

\* The Provider / Patient with the key, as get(npi=...) / get(mrn=...) returns it
ProviderOf(npi) == CHOOSE p \in providers : p.npi = npi
PatientOf(mrn) == CHOOSE p \in patients : p.mrn = mrn

\* lines 77-80, first query of Provider.objects.get_or_create: get(npi=...)
ProviderGet(c) ==
    /\ callers[c].pc = "start"
    /\ \E data \in AdmitRequests :
        LET found == \E p \in providers : p.npi = data.referring_provider_npi
        IN  callers' = [callers EXCEPT ![c] =
                [pc |-> IF found THEN "patient_get" ELSE "provider_create",
                 data |-> data,
                 provider |-> IF found THEN ProviderOf(data.referring_provider_npi)
                                       ELSE None,
                 patient |-> None,
                 provider_created |-> FALSE,
                 lost_race |-> FALSE,
                 lost_patient_race |-> FALSE]]
    /\ UNCHANGED <<results, queue, received, clock, previous, orders, care_plans, cache,
                   broker, tasks, request, validation, response, providers, patients>>

\* lines 77-80, get_or_create after DoesNotExist: create(npi, name); on
\* IntegrityError the row that is there now is returned with created = False
ProviderCreate(c) ==
    /\ callers[c].pc = "provider_create"
    /\ LET data == callers[c].data
           row == [npi |-> data.referring_provider_npi, name |-> data.referring_provider]
           done == insert_provider(row)
       IN  /\ providers' = done.rows
           /\ callers' = [callers EXCEPT
                             ![c].pc = "patient_get",
                             ![c].provider = IF done.raised THEN ProviderOf(row.npi) ELSE row,
                             ![c].provider_created = ~done.raised,
                             ![c].lost_race = done.raised]
    /\ UNCHANGED <<results, queue, received, clock, previous, orders, care_plans, cache,
                   broker, tasks, request, validation, response, patients>>

\* lines 85-93, first query of Patient.objects.get_or_create: get(mrn=...)
PatientGet(c) ==
    /\ callers[c].pc = "patient_get"
    /\ LET mrn == callers[c].data.patient_mrn
           found == \E p \in patients : p.mrn = mrn
       IN  callers' = [callers EXCEPT
                          ![c].pc = IF found THEN "order_create" ELSE "patient_create",
                          ![c].patient = IF found THEN PatientOf(mrn) ELSE None]
    /\ UNCHANGED <<results, queue, received, clock, previous, orders, care_plans, cache,
                   broker, tasks, request, validation, response, providers, patients>>

\* lines 85-93, get_or_create after DoesNotExist: create(mrn, names, dob)
PatientCreate(c) ==
    /\ callers[c].pc = "patient_create"
    /\ LET data == callers[c].data
           row == [mrn |-> data.patient_mrn, first_name |-> data.patient_first_name,
                   last_name |-> data.patient_last_name,
                   date_of_birth |-> strptime(data.patient_dob)]
           done == insert_patient(row)
       IN  /\ patients' = done.rows
           /\ callers' = [callers EXCEPT
                             ![c].pc = "order_create",
                             ![c].patient = IF done.raised THEN PatientOf(row.mrn) ELSE row,
                             ![c].lost_patient_race = done.raised]
    /\ UNCHANGED <<results, queue, received, clock, previous, orders, care_plans, cache,
                   broker, tasks, request, validation, response, providers>>

\* lines 99-107: Order.objects.create(patient=, provider=, primary_diagnosis=,
\* ...) names fields the Order model does not have (models.py 43-50) and
\* raises TypeError; the Provider and the Patient stay (no transaction)
OrderCreate(c) ==
    /\ callers[c].pc = "order_create"
    /\ callers' = [callers EXCEPT ![c].pc = "raised"]
    /\ UNCHANGED <<results, queue, received, clock, previous, orders, care_plans, cache,
                   broker, tasks, request, validation, response, providers, patients>>

create_careplan(c) ==
    \/ ProviderGet(c)
    \/ ProviderCreate(c)
    \/ PatientGet(c)
    \/ PatientCreate(c)
    \/ OrderCreate(c)

NextAdmit == \E c \in Callers : create_careplan(c)

SpecAdmit == Init /\ [][NextAdmit]_vars

-----------------------------------------------------------------------------
(* views.py: careplan_status, the status query. SpecStatus: the workers of *)
(* SpecTask with a caller polling the status; SpecApi: the submissions of  *)
(* SpecGate with a caller polling the status.                              *)

\* The primary keys a caller asks for
StatusKeys == {1, 2}

\* serializers.py: serialize_careplan_status(care_plan); the text of content
\* is wrapped in a record so that it compares with None
serialize_careplan_status(care_plan) ==
    [status |-> care_plan.status,
     content |-> IF care_plan.status = "completed"
                 THEN [text |-> care_plan.generated_plan]
                 ELSE None]

\* Mutant: the text is returned whenever the row holds one
status_body_with_any_content(care_plan) ==
    IF care_plan.generated_plan # ""
    THEN [status |-> care_plan.status, generated_plan |-> care_plan.generated_plan]
    ELSE [status |-> care_plan.status]

\* lines 303-308: response_data of careplan_status
status_body(care_plan) ==
    IF care_plan.status = "completed"
    THEN [status |-> care_plan.status, generated_plan |-> care_plan.generated_plan]
    ELSE [status |-> care_plan.status]

\* GET /api/careplan/<pk>/status/
careplan_status(pk) ==
    /\ response' = IF get(pk) = None
                   THEN custom_exception_handler(Http404(MSG_NO_CAREPLAN))
                   ELSE [status |-> 200, body |-> status_body(get(pk))]
    /\ UNCHANGED <<results, queue, received, callers, clock, previous, providers, patients,
                   orders, care_plans, cache, broker, tasks, request, validation>>

Poll == \E pk \in StatusKeys : careplan_status(pk)

NextStatus == NextTask \/ Poll

SpecStatus == InitTask /\ [][NextStatus]_vars

NextApi == Submit \/ Poll

SpecApi == InitGate /\ [][NextApi]_vars

-----------------------------------------------------------------------------
(* middleware.py: ExceptionHandlerMiddleware.process_exception. The        *)
(* classes BaseAppException, ValidationError, BlockError, WarningException *)
(* it imports are described by tests/test_exceptions.py only.              *)
(* SpecMiddleware: a view raises any exception and the middleware maps it. *)

\* The subclasses of BaseAppException
AppExceptionClasses == {"ValidationError", "BlockError", "WarningException"}

\* The class attribute http_status
http_status(class) ==
    CASE class = "ValidationError" -> 400
      [] class = "BlockError" -> 409
      [] class = "WarningException" -> 200

\* The "type" entry of to_dict()
error_type(class) ==
    CASE class = "ValidationError" -> "VALIDATION_ERROR"
      [] class = "BlockError" -> "BLOCK_ERROR"
      [] class = "WarningException" -> "WARNING"

\* BaseAppException.to_dict()
to_dict(exception) ==
    [type |-> error_type(exception.class), code |-> exception.code,
     message |-> exception.message, detail |-> exception.detail]

\* What a view may raise: the application exceptions, the ValidationError of
\* rest_framework, and exceptions of other classes
RaisedExceptions ==
    [class : AppExceptionClasses \cup {"DRFValidationError", "KeyError"},
     code : {"NPI_NAME_CONFLICT", "MRN_INFO_MISMATCH", "INVALID_FORMAT"},
     message : {"NPI already exists", "Patient info mismatch", "Input validation failed"},
     detail : {<<>>, <<"npi">>, <<"patient_mrn">>}]

\* Mutant: a WarningException is answered like the other application
\* exceptions
process_exception_warning_as_error(exception) ==
    CASE exception.class = "DRFValidationError" ->
            [status |-> 400,
             body |-> [success |-> FALSE,
                       error |-> [type |-> "VALIDATION_ERROR",
                                  code |-> "FIELD_VALIDATION_FAILED",
                                  message |-> "Input validation failed",
                                  detail |-> exception.detail]]]
      [] exception.class \in AppExceptionClasses ->
            [status |-> http_status(exception.class),
             body |-> [success |-> FALSE, error |-> to_dict(exception)]]
      [] OTHER -> None

\* process_exception(request, exception): the JsonResponse, or None
process_exception(exception) ==
    CASE exception.class = "DRFValidationError" ->
            [status |-> 400,
             body |-> [success |-> FALSE,
                       error |-> [type |-> "VALIDATION_ERROR",
                                  code |-> "FIELD_VALIDATION_FAILED",
                                  message |-> "Input validation failed",
                                  detail |-> exception.detail]]]
      [] exception.class = "WarningException" ->
            [status |-> 200,
             body |-> [success |-> TRUE, data |-> None,
                       warnings |-> <<to_dict(exception)>>,
                       requires_confirmation |-> TRUE]]
      [] exception.class \in AppExceptionClasses ->
            [status |-> http_status(exception.class),
             body |-> [success |-> FALSE, error |-> to_dict(exception)]]
      [] OTHER -> None

\* A view raises the exception and Django calls process_exception
ViewRaises ==
    \E exception \in RaisedExceptions :
        /\ request' = [exception |-> exception]
        /\ response' = process_exception(exception)
        /\ UNCHANGED <<results, queue, received, callers, clock, previous, providers, patients,
                       orders, care_plans, cache, broker, tasks, validation>>

NextMiddleware == ViewRaises

SpecMiddleware == Init /\ [][NextMiddleware]_vars

-----------------------------------------------------------------------------
(* Properties of check_all_duplicates (checked under SpecEval)             *)

Evaluated == request # NoRequest

WithCode(result, code) == {i \in DOMAIN result.items : result.items[i].code = code}

WithLevel(result, level) == {i \in DOMAIN result.items : result.items[i].level = level}

SameIgnoringCase(a, b) == lower(a) = lower(b)

ProviderByNpi == {p \in providers : p.npi = request.npi}

PatientByMrn == {p \in patients : p.mrn = request.mrn}

PatientInfoEqual(p) ==
    /\ SameIgnoringCase(p.first_name, request.first_name)
    /\ SameIgnoringCase(p.last_name, request.last_name)
    /\ p.date_of_birth = request.date_of_birth

C7_PatientExactMatchReused ==
    Evaluated =>
        \A p \in PatientByMrn :
            PatientInfoEqual(p) =>
                /\ validation.reusable_patient = p
                /\ WithCode(validation, "PATIENT_INFO_MISMATCH") = {}
                /\ WithCode(validation, "POTENTIAL_DUPLICATE_PATIENT") = {}

C7_Witness ==
    /\ Evaluated
    /\ \E p \in PatientByMrn :
        /\ PatientInfoEqual(p)
        /\ p.first_name # request.first_name
        /\ validation.reusable_patient = p

C10_Scenario ==
    /\ Evaluated
    /\ patients = {[mrn |-> "123456", first_name |-> "John", last_name |-> "Smith",
                    date_of_birth |-> <<1985, 3, 15>>]}
    /\ request.mrn = "654321"
    /\ request.first_name = "John"
    /\ request.last_name = "Smith"
    /\ request.date_of_birth = <<1985, 3, 15>>
    /\ request.confirm = FALSE

C11_AsStated ==
    (Evaluated /\ request.confirm) =>
        /\ WithCode(validation, "PATIENT_INFO_MISMATCH") = {}
        /\ WithCode(validation, "POTENTIAL_DUPLICATE_PATIENT") = {}
        /\ \A p \in PatientByMrn : validation.reusable_patient = p
        /\ PatientByMrn = {} => validation.reusable_patient = None

\* C12: when the patient check resolves no reusable patient (new patient, or
\* a name and date-of-birth match under another mrn) the result has neither
\* DUPLICATE_ORDER_SAME_DAY nor EXISTING_MEDICATION_ORDER, whatever the Order
\* table holds.
C12_OrderCheckNeedsReusablePatient ==
    (Evaluated /\ validation.reusable_patient = None) =>
        /\ WithCode(validation, "DUPLICATE_ORDER_SAME_DAY") = {}
        /\ WithCode(validation, "EXISTING_MEDICATION_ORDER") = {}

\* A name and date-of-birth match under another mrn who has an Order for the
\* submitted medication
C12_Witness ==
    /\ Evaluated
    /\ PatientByMrn = {}
    /\ validation.reusable_patient = None
    /\ \E p \in patients :
        /\ PatientInfoEqual(p)
        /\ \E o \in orders :
            /\ o.patient = p.mrn
            /\ SameIgnoringCase(o.medication_name, request.medication_name)
    /\ WithCode(validation, "POTENTIAL_DUPLICATE_PATIENT") # {}

Codes(result) == [i \in DOMAIN result.items |-> result.items[i].code]

\* C15: no short-circuit. When the npi belongs to a differently named
\* Provider, the mrn belongs to a Patient with differing info, and that Patient
\* has a same-day Order for the medication, the one evaluation returns the
\* three findings DUPLICATE_NPI_MISMATCH, PATIENT_INFO_MISMATCH and
\* DUPLICATE_ORDER_SAME_DAY together.
C15_AllFindingsCollected ==
    (/\ Evaluated
     /\ \E p \in ProviderByNpi : ~SameIgnoringCase(p.name, request.provider_name)
     /\ \E p \in PatientByMrn :
            /\ ~PatientInfoEqual(p)
            /\ \E o \in orders :
                /\ o.patient = p.mrn
                /\ SameIgnoringCase(o.medication_name, request.medication_name)
                /\ o.created_at = <<2026, 1, 15>>)
    => Codes(validation) = <<"DUPLICATE_NPI_MISMATCH", "PATIENT_INFO_MISMATCH",
                             "DUPLICATE_ORDER_SAME_DAY">>

C15_Witness ==
    /\ Evaluated
    /\ Len(validation.items) = 3
    /\ WithCode(validation, "DUPLICATE_NPI_MISMATCH") # {}
    /\ WithCode(validation, "PATIENT_INFO_MISMATCH") # {}
    /\ WithCode(validation, "DUPLICATE_ORDER_SAME_DAY") # {}

\* C17: duplicate evaluation is read-only. A call of check_all_duplicates
\* leaves the Provider, Patient, Order and CarePlan rows as they are, for
\* every input and every store.
C17_EvaluationReadOnly ==
    [][/\ providers' = providers
       /\ patients' = patients
       /\ orders' = orders
       /\ care_plans' = care_plans]_vars

\* An evaluation of a provider and a patient that the store does not hold
C17_Witness ==
    /\ Evaluated
    /\ ProviderByNpi = {}
    /\ PatientByMrn = {}
    /\ validation # None
    /\ validation.reusable_provider = None
    /\ validation.reusable_patient = None

-----------------------------------------------------------------------------
(* Properties of the order check (checked under SpecOrders)                *)

\* Orders of patient p for the submitted medication, compared ignoring case
OrdersOfMedication(p) ==
    {o \in orders : /\ o.patient = p.mrn
                    /\ SameIgnoringCase(o.medication_name, request.medication_name)}

SameDayOrders(p) == {o \in OrdersOfMedication(p) : o.created_at = <<2026, 1, 15>>}

Resolved == Evaluated /\ validation.reusable_patient # None

\* C13: when the resolved patient has an Order for the submitted medication
\* (ignoring case) created on the current day, the result has exactly one
\* error DUPLICATE_ORDER_SAME_DAY and no EXISTING_MEDICATION_ORDER warning,
\* for confirm = FALSE and confirm = TRUE alike.
C13_SameDayOrderAlwaysErrors ==
    (Resolved /\ SameDayOrders(validation.reusable_patient) # {}) =>
        /\ Cardinality(WithCode(validation, "DUPLICATE_ORDER_SAME_DAY")) = 1
        /\ \A i \in WithCode(validation, "DUPLICATE_ORDER_SAME_DAY") :
               validation.items[i].level = "error"
        /\ WithCode(validation, "EXISTING_MEDICATION_ORDER") = {}

\* confirm = TRUE, with a same-day and an earlier Order for the medication
C13_Witness ==
    /\ Resolved
    /\ request.confirm
    /\ SameDayOrders(validation.reusable_patient) # {}
    /\ OrdersOfMedication(validation.reusable_patient)
           # SameDayOrders(validation.reusable_patient)
    /\ Cardinality(WithCode(validation, "DUPLICATE_ORDER_SAME_DAY")) = 1

-----------------------------------------------------------------------------
(* Properties of the validation gate (checked under SpecGate)              *)

HasError(v) == v # None /\ WithLevel(v, "error") # {}
HasWarning(v) == v # None /\ WithLevel(v, "warning") # {}

\* Every finding of v of the level appears, with its code and message and in
\* its order, in the list returned to the caller
Returned(v, level, list) ==
    /\ Len(list) = Cardinality(WithLevel(v, level))
    /\ \A i \in WithLevel(v, level) :
        LET k == Cardinality({j \in WithLevel(v, level) : j <= i})
        IN  list[k] = [code |-> v.items[i].code, message |-> v.items[i].message]

NothingCreated ==
    /\ care_plans' = care_plans
    /\ broker' = broker
    /\ <<providers, patients, orders>>' = <<providers, patients, orders>>

IsBlock(resp) ==
    /\ resp # NoResponse
    /\ resp.status = 422
    /\ resp.body.success = FALSE

IsConfirmationRequest(resp) ==
    /\ resp # NoResponse
    /\ resp.status = 200
    /\ "requires_confirmation" \in DOMAIN resp.body
    /\ resp.body.requires_confirmation = TRUE

\* C3: Block. A submission whose validation result holds at least one error
\* (with or without warnings, whatever confirm is) is answered with all the
\* findings, and creates no CarePlan or other row and enqueues no task.
C3_Block ==
    [][HasError(validation') =>
        /\ IsBlock(response')
        /\ Returned(validation', "error", response'.body.errors)
        /\ Returned(validation', "warning", response'.body.warnings)
        /\ NothingCreated]_vars

C3_Witness ==
    /\ HasError(validation)
    /\ HasWarning(validation)
    /\ request.confirm = "true"
    /\ IsBlock(response)
    /\ Len(response.body.warnings) >= 1
    /\ care_plans = <<>>
    /\ broker = EmptyBag

\* C4: RequiresConfirmation. A submission whose validation result holds at
\* least one warning and no error is answered with all the warnings, and
\* creates no CarePlan or other row and enqueues no task.
C4_RequiresConfirmation ==
    [][(HasWarning(validation') /\ ~HasError(validation')) =>
        /\ IsConfirmationRequest(response')
        /\ Returned(validation', "warning", response'.body.warnings)
        /\ NothingCreated]_vars

C4_Witness ==
    /\ HasWarning(validation)
    /\ ~HasError(validation)
    /\ IsConfirmationRequest(response)
    /\ Len(response.body.warnings) = 2
    /\ care_plans = <<>>
    /\ broker = EmptyBag

\* C5 as stated: a submission answered with a confirmation request (warnings
\* only), submitted again with the same fields and confirm=true against the
\* unchanged store, is admitted: a CarePlan is created, and the answer is not
\* a confirmation request again. (A resubmission that the rate limiter turns
\* away is left out.)
C5_AsStated ==
    [][(/\ IsConfirmationRequest(response)
        /\ request.confirm = "false"
        /\ request' = [request EXCEPT !.confirm = "true"]
        /\ cache' # cache) =>
            /\ ~IsConfirmationRequest(response')
            /\ Len(care_plans') = Len(care_plans) + 1]_vars

-----------------------------------------------------------------------------
(* Properties of the rate limiter inside index (checked under SpecGate)     *)

IsRateLimited(resp) ==
    /\ resp # NoResponse
    /\ resp.status = 429

\* C18: the decision rule of the rate limiter. A call is rejected, with both
\* counters left as they are, exactly when the minute counter is >= 15 or the
\* day counter is >= 1500 at the read; otherwise it is admitted and the
\* minute counter and the day counter each grow by exactly one. The copy of the
\* rule in services.py decides and counts the same way.
C18_RateLimiterDecision ==
    [][LET rejected == cache.minute >= 15 \/ cache.day >= 1500
       IN  /\ IF rejected
              THEN /\ IsRateLimited(response')
                   /\ cache' = cache
              ELSE /\ ~IsRateLimited(response')
                   /\ cache' = [minute |-> cache.minute + 1, day |-> cache.day + 1]
           /\ services_check_rate_limit.allowed = ~rejected
           /\ services_check_rate_limit.cache = cache']_vars

\* Rejected by the day counter alone
C18_Witness ==
    /\ IsRateLimited(response)
    /\ cache.minute < 15
    /\ cache.day >= 1500

\* C20: rate limiting runs first. A submission that the rate limiter rejects
\* never reaches the duplicate evaluation: no ValidationResult is computed,
\* no CarePlan or other row is created and no task is enqueued.
C20_RateLimitRunsFirst ==
    [][IsRateLimited(response') =>
        /\ validation' = None
        /\ NothingCreated]_vars

\* A rejected submission whose evaluation would have found an error
C20_Witness ==
    /\ IsRateLimited(response)
    /\ validation = None
    /\ \E p \in providers :
        /\ p.npi = request.referring_provider_npi
        /\ lower(p.name) # lower(request.referring_provider)
    /\ care_plans = <<>>
    /\ broker = EmptyBag

-----------------------------------------------------------------------------
(* Properties of the admission step of index (checked under SpecGate)      *)

\* The submission just handled created a CarePlan row
RowCreated == Len(care_plans') = Len(care_plans) + 1

\* The submission just handled published this many tasks for the new row
TasksPublished ==
    BagCardinality(broker') - BagCardinality(broker)

IsSuccess(resp) ==
    /\ resp # NoResponse
    /\ resp.status = 200
    /\ resp.body.success = TRUE

\* C23: when the task cannot be published because the broker is unavailable,
\* the submission is answered as a failure (status 500, success false), never
\* as a success, and the CarePlan row created before the publication is left
\* in the table with status pending.
C23_EnqueueFailureSurfaced ==
    [][(RowCreated /\ TasksPublished = 0) =>
            /\ ~IsSuccess(response')
            /\ response'.status = 500
            /\ response'.body.success = FALSE
            /\ care_plans'[Len(care_plans')].status = "pending"
            /\ SubSeq(care_plans', 1, Len(care_plans)) = care_plans]_vars

C23_Witness ==
    /\ response # NoResponse
    /\ response.status = 500
    /\ Len(care_plans) = 1
    /\ care_plans[1].status = "pending"
    /\ broker = EmptyBag

\* The submission was rate-limited, blocked or answered with a confirmation
\* request
Rejected(resp) == IsRateLimited(resp) \/ IsBlock(resp) \/ IsConfirmationRequest(resp)

\* The submission just handled created exactly one row, with status pending,
\* and left the earlier rows as they were
OneJobCreated ==
    /\ RowCreated
    /\ SubSeq(care_plans', 1, Len(care_plans)) = care_plans
    /\ care_plans'[Len(care_plans')] = NewCarePlan(request')
    /\ care_plans'[Len(care_plans')].status = "pending"

\* The submission just handled published exactly one task, for the new row
OneTaskPublished ==
    broker' = broker (+) SetToBag({TaskMessage(Len(care_plans'), 0)})

\* C30 as stated: every admitted submission creates exactly one CarePlan,
\* with status pending, and publishes exactly one task for its id; a
\* submission that is rate-limited, blocked or answered with a confirmation
\* request creates no CarePlan and publishes no task.
C30_AsStated ==
    [][IF Rejected(response')
       THEN care_plans' = care_plans /\ broker' = broker
       ELSE OneJobCreated /\ OneTaskPublished]_vars

\* C30, amended: every admitted submission creates exactly one CarePlan, with
\* status pending. It publishes exactly one task for the id of that CarePlan
\* and is answered as a success, or, when the broker cannot be reached, it
\* publishes no task and is answered with status 500. A submission that is
\* rate-limited, blocked or answered with a confirmation request creates no
\* CarePlan and publishes no task.
C30_OneJobPerAdmission ==
    [][IF Rejected(response')
       THEN care_plans' = care_plans /\ broker' = broker
       ELSE /\ OneJobCreated
            /\ \/ IsSuccess(response') /\ OneTaskPublished
                  /\ response'.body.careplan_id = Len(care_plans')
               \/ response'.status = 500 /\ broker' = broker]_vars

C30_Witness ==
    /\ IsSuccess(response)
    /\ Len(care_plans) = 1
    /\ care_plans[1].status = "pending"
    /\ broker = SetToBag({TaskMessage(1, 0)})

-----------------------------------------------------------------------------
(* Properties of rate-limit rejections (checked under SpecWindow)          *)

RateLimitMessage(resp) == resp.body.errors[1].message

\* C21 as stated: every rate-limit rejection carries one fixed message. Any
\* two rejections a caller receives one after the other carry the same
\* message, whichever ceiling was hit and whatever the counters hold.
C21_AsStated ==
    [][(IsRateLimited(response) /\ IsRateLimited(response')) =>
            RateLimitMessage(response') = RateLimitMessage(response)]_vars

-----------------------------------------------------------------------------
(* Properties of concurrent rate limiting (checked under SpecLimiter)      *)

AdmittedCallers == {c \in Callers : callers[c].pc = "admitted"}

\* C19 as stated: the rate limiter bounds the call volume under every
\* interleaving of concurrent callers: never more than 15 calls are admitted
\* in one minute bucket and never more than 1500 in one day bucket. The
\* callers arrive with 14 calls already admitted in the minute, or with 1499
\* already admitted in the day, so at most one of them may be admitted.
C19_AsStated == Cardinality(AdmittedCallers) <= 1

-----------------------------------------------------------------------------
(* Properties of the job pipeline (checked under Spec)                     *)

Terminal == {"completed", "failed"}

\* C1 as stated: the status is monotonic. Once the status of a CarePlan is
\* completed or failed, no step (a redelivery of its id to
\* generate_care_plan_task, a retry, the sweep) changes it.
C1_AsStated ==
    [][\A id \in DOMAIN care_plans :
        care_plans[id].status \in Terminal =>
            care_plans'[id].status = care_plans[id].status]_vars

\* C2 as stated: a delivery of a job id (not a retry) that finds the job
\* already processing, completed or failed is a no-op: it does not get as far
\* as the external generation call.
C2_AsStated ==
    \A w \in Workers :
        (tasks[w].pc \in {"generated", "raised"} /\ tasks[w].retries = 0) =>
            tasks[w].found_status = "pending"

-----------------------------------------------------------------------------
(* Properties of one run of generate_care_plan_task (checked under         *)
(* SpecTask, C27 under SpecTaskLive)                                       *)

\* C24: when the generation call has returned for a claimed job, the next
\* step of the worker saves the row of that job with the returned text and
\* status completed (or the save raises and the row is left as it was); and
\* every row with status completed holds a text that a generation call made
\* for that job returned.
C24_CompletedHasGeneratedContent ==
    [][/\ \A w \in Workers :
            (tasks[w].pc = "generated" /\ tasks'[w] # tasks[w]) =>
                \/ /\ care_plans'[tasks[w].careplan_id] =
                          [tasks[w].care_plan EXCEPT !.status = "completed"]
                   /\ tasks[w].care_plan.generated_plan \in GeneratedTexts
                   /\ tasks'[w] = Idle
                \/ /\ care_plans' = care_plans
                   /\ tasks'[w].pc = "store_raised"
       /\ \A id \in DOMAIN care_plans' :
            (care_plans'[id].status = "completed" /\ care_plans'[id] # care_plans[id]) =>
                \E w \in Workers :
                    /\ tasks[w].pc = "generated"
                    /\ tasks[w].careplan_id = id
                    /\ care_plans'[id].generated_plan = tasks[w].care_plan.generated_plan
                    /\ care_plans'[id].generated_plan \in GeneratedTexts]_vars

C24_Witness ==
    \E id \in DOMAIN care_plans :
        /\ care_plans[id].status = "completed"
        /\ care_plans[id].generated_plan \in GeneratedTexts
        /\ TaskResult("success", id) \in results

\* C25: a run of generate_care_plan_task that finds no row for its id
\* returns an error result without raising: no task is published for a retry,
\* the worker is idle again without having called the generation, and no row
\* is changed. (Only an exception of the store other than DoesNotExist takes
\* the run to the handler.)
C25_MissingRowDropped ==
    [][\A m \in BagToSet(broker) :
        (m.careplan_id \notin DOMAIN care_plans /\ broker' = broker (-) SetToBag({m})) =>
            /\ care_plans' = care_plans
            /\ \/ /\ tasks' = tasks
                  /\ results' = results \cup {TaskResult("error", m.careplan_id)}
               \/ /\ \E w \in Workers :
                        tasks' = [tasks EXCEPT ![w] = StoreRaised(m.careplan_id, m.retries)]
                  /\ results' = results]_vars

C25_Witness ==
    /\ 2 \notin DOMAIN care_plans
    /\ TaskResult("error", 2) \in results
    /\ \A m \in BagToSet(broker) : m.careplan_id # 2
    /\ \A w \in Workers : tasks[w].pc # "idle" => tasks[w].careplan_id # 2
    /\ \A id \in DOMAIN care_plans : care_plans[id].status = "pending"

\* The attempt of worker w has failed and its handler runs in this step
HandlerRuns(w) ==
    /\ tasks[w].pc \in {"raised", "store_raised"}
    /\ tasks'[w] # tasks[w]

\* C26: the retry ceiling. No attempt and no published task carries a retry
\* count above 3. A failed attempt whose retry count is below 3 publishes the
\* task once more, with the count raised by one, and sets no status. The
\* status failed is set only by the handler of an attempt whose retry count
\* is 3, for the job of that attempt; that step publishes nothing and leaves
\* the worker idle, so the delivery makes no further attempt.
C26_RetryCeiling ==
    [][/\ \A m \in BagToSet(broker') : m.retries <= MAX_RETRIES
       /\ \A w \in Workers : tasks'[w].pc # "idle" => tasks'[w].retries <= MAX_RETRIES
       /\ \A w \in Workers :
            HandlerRuns(w) =>
                /\ tasks'[w] = Idle
                /\ IF tasks[w].retries < MAX_RETRIES
                   THEN /\ broker' = broker (+) SetToBag({TaskMessage(tasks[w].careplan_id,
                                                                      tasks[w].retries + 1)})
                        /\ care_plans' = care_plans
                   ELSE broker' = broker
       /\ \A id \in DOMAIN care_plans :
            (care_plans'[id].status = "failed" /\ care_plans'[id] # care_plans[id]) =>
                /\ \E w \in Workers :
                    /\ HandlerRuns(w)
                    /\ tasks[w].careplan_id = id
                    /\ tasks[w].retries = MAX_RETRIES
                /\ broker' = broker]_vars

C26_Witness ==
    /\ \E id \in DOMAIN care_plans : care_plans[id].status = "failed"
    /\ broker = EmptyBag
    /\ \A w \in Workers : tasks[w] = Idle

\* C27 as stated: with the workers running (no process crash), every job
\* with status processing eventually has status completed or failed, however
\* the generation call and the store behave.
C27_AsStated ==
    \A id \in 1..MaxJobs :
        (id \in DOMAIN care_plans /\ care_plans[id].status = "processing")
            ~> (care_plans[id].status \in Terminal)

-----------------------------------------------------------------------------
(* Properties of the Redis queue (checked under SpecQueue)                 *)

\* How many enqueue_careplan calls for the id returned True
Enqueued(id) ==
    Cardinality({c \in Callers : /\ callers[c].pc = "enqueued"
                                 /\ callers[c].careplan_id = id
                                 /\ callers[c].returned})

\* How many times the id waits in the list
Waiting(id) == Cardinality({i \in 1..Len(queue) : queue[i] = ToString(id)})

\* How many dequeue_careplan calls returned the id
HandedOut(id) ==
    Cardinality({wi \in Workers \X (1..MaxDequeues) :
                    /\ wi[2] <= Len(received[wi[1]])
                    /\ received[wi[1]][wi[2]] = [careplan_id |-> ToString(id)]})

\* C22: the queue is first-in first-out and hands every id out exactly once.
\* An enqueue_careplan that returns True has put its id (as decimal text) at
\* the tail of the list and changed nothing else in it; a dequeue_careplan
\* that returns an id returns the head of the list and removes exactly that
\* element; on an empty list no dequeue_careplan returns an id; and at every
\* moment each id has been returned as many times as it was enqueued, less
\* the times it is still waiting in the list.
C22_FifoExactlyOnce ==
    [][/\ \A c \in Callers :
            callers'[c] # callers[c] =>
                queue' = IF callers'[c].returned
                         THEN Append(queue, ToString(callers'[c].careplan_id))
                         ELSE queue
       /\ \A w \in Workers :
            received'[w] # received[w] =>
                \/ /\ queue # <<>>
                   /\ received'[w] = Append(received[w], [careplan_id |-> Head(queue)])
                   /\ queue' = Tail(queue)
                \/ /\ received'[w] = Append(received[w], None)
                   /\ queue' = queue
       /\ queue' # queue =>
            \/ \E c \in Callers : callers'[c] # callers[c]
            \/ \E w \in Workers : received'[w] # received[w]
       /\ \A id \in QueueIds : (Enqueued(id) = Waiting(id) + HandedOut(id))']_vars

C22_Witness ==
    /\ queue = <<>>
    /\ \E w \in Workers : received[w] = <<[careplan_id |-> "1"], [careplan_id |-> "2"]>>
    /\ Enqueued(1) = 1
    /\ Enqueued(2) = 1

-----------------------------------------------------------------------------
(* Properties of concurrent create_careplan (checked under SpecAdmit)      *)

\* Thread c found no Provider for its npi, lost the INSERT to another
\* thread, and has gone on with the row of that thread although the name in
\* that row is not the name it submitted
SilentlyReused(c) ==
    /\ callers[c].pc \notin {"start", "provider_create"}
    /\ callers[c].lost_race
    /\ ~iexact(callers[c].provider.name, callers[c].data.referring_provider)

\* C28 as stated: an admission that found no record and then loses the
\* uniqueness race is not completed as a silent success: the violation is a
\* conflict and the check runs again against the record that now exists, so
\* an admission whose provider name differs from the stored one stops with
\* DUPLICATE_NPI_MISMATCH and never goes on with the other admission's row.
C28_AsStated == \A c \in Callers : ~SilentlyReused(c)

\* C29: in every state reached by any interleaving of create_careplan calls,
\* no two Provider rows share an npi and no two Patient rows share an mrn.
C29_UniqueKeys == UniqueNpi(providers) /\ UniqueMrn(patients)

C29_Witness ==
    /\ Cardinality(providers) = 1
    /\ Cardinality(patients) = 1
    /\ \E c, d \in Callers :
        /\ c # d
        /\ callers[c].pc = "raised"
        /\ callers[d].pc = "raised"
        /\ callers[c].data.referring_provider # callers[d].data.referring_provider
        /\ callers[c].provider_created
        /\ callers[d].lost_race

-----------------------------------------------------------------------------
(* Properties of the status query (checked under SpecStatus and SpecApi)   *)

\* The body answers for the row: its status, and its text exactly when the
\* status is completed
AnswersFor(body, care_plan) ==
    /\ body.status = care_plan.status
    /\ ("generated_plan" \in DOMAIN body) <=> (care_plan.status = "completed")
    /\ care_plan.status = "completed" => body.generated_plan = care_plan.generated_plan

\* C31: the status query returns the current status of the job, and the
\* generated text if and only if that status is completed: a pending,
\* processing or failed job is answered without text even when its row holds
\* the text of an earlier run. serialize_careplan_status follows the same
\* rule for every row.
C31_ContentIffCompleted ==
    [][/\ response' # response =>
            \E pk \in StatusKeys :
                IF pk \in DOMAIN care_plans
                THEN /\ response'.status = 200
                     /\ AnswersFor(response'.body, care_plans[pk])
                ELSE response'.status = 404
       /\ \A id \in DOMAIN care_plans :
            LET result == serialize_careplan_status(care_plans[id])
            IN  /\ result.status = care_plans[id].status
                /\ (result.content # None) <=> (care_plans[id].status = "completed")
                /\ care_plans[id].status = "completed" =>
                        result.content.text = care_plans[id].generated_plan]_vars

C31_Witness ==
    /\ care_plans[1].status = "processing"
    /\ care_plans[1].generated_plan \in GeneratedTexts
    /\ response.status = 200
    /\ response.body = [status |-> "processing"]

\* The response reports a failure that is neither a ValidationException
\* (422) nor a RateLimitException (429)
IsOtherFailure(resp) ==
    /\ resp # NoResponse
    /\ resp.status \notin {200, 422, 429}

\* C33 as stated: every failure that is not a ValidationException or a
\* RateLimitException is reported generically: the response carries the one
\* fixed code INTERNAL_ERROR and the one fixed message, whatever the text of
\* the exception.
C33_AsStated ==
    IsOtherFailure(response) =>
        /\ response.body.success = FALSE
        /\ response.body.errors =
               <<[code |-> INTERNAL_ERROR, message |-> MSG_SERVICE_UNAVAILABLE]>>

-----------------------------------------------------------------------------
(* Further properties of check_all_duplicates (checked under SpecEval)     *)

\* The one message text of each finding code
FixedMessage(code) ==
    CASE code = DUPLICATE_NPI_MISMATCH -> MSG_NPI_IN_USE
      [] code = PATIENT_INFO_MISMATCH -> MSG_PATIENT_MISMATCH
      [] code = POTENTIAL_DUPLICATE_PATIENT -> MSG_POTENTIAL_DUPLICATE
      [] code = DUPLICATE_ORDER_SAME_DAY -> MSG_ORDER_SAME_DAY
      [] code = EXISTING_MEDICATION_ORDER -> MSG_EXISTING_ORDER

-----------------------------------------------------------------------------
(* Properties of process_exception (checked under SpecMiddleware)          *)

\* The exception the middleware has just handled
Handled == "exception" \in DOMAIN request

\* C34: process_exception answers a WarningException with HTTP 200,
\* success true, requires_confirmation true and exactly one warning (the
\* exception's to_dict); any other application exception with success false,
\* its to_dict and its own http_status (409 for BlockError, 400 for
\* ValidationError); a ValidationError of rest_framework with HTTP 400 and
\* code FIELD_VALIDATION_FAILED; and any other exception with None.
C34_MiddlewareMapping ==
    Handled =>
        LET exception == request.exception
        IN  CASE exception.class = "WarningException" ->
                    /\ response.status = 200
                    /\ response.body.success = TRUE
                    /\ response.body.requires_confirmation = TRUE
                    /\ response.body.warnings = <<to_dict(exception)>>
              [] exception.class = "BlockError" ->
                    /\ response.status = 409
                    /\ response.body = [success |-> FALSE, error |-> to_dict(exception)]
              [] exception.class = "ValidationError" ->
                    /\ response.status = 400
                    /\ response.body = [success |-> FALSE, error |-> to_dict(exception)]
              [] exception.class = "DRFValidationError" ->
                    /\ response.status = 400
                    /\ response.body.success = FALSE
                    /\ response.body.error.code = "FIELD_VALIDATION_FAILED"
                    /\ response.body.error.detail = exception.detail
              [] OTHER -> response = None

C34_Witness ==
    /\ Handled
    /\ request.exception.class = "WarningException"
    /\ response.status = 200
    /\ Len(response.body.warnings) = 1
    /\ response.body.warnings[1].code = "MRN_INFO_MISMATCH"

-----------------------------------------------------------------------------
(* Further properties of generate_care_plan_task (checked under SpecTask)  *)

\* Worker w is at the call of get_gemini_response (line 93)
Generating(w) == tasks[w].pc = "claimed"

\* C35: in every attempt the status is persisted as processing before the
\* generation call: the step that brings a worker to the call leaves the row
\* stored as processing, and while any generation call is in flight the
\* stored status of its job is not pending.
C35_ProcessingBeforeGeneration ==
    [][\A w \in Workers :
          Generating(w)' =>
              /\ tasks'[w].careplan_id \in DOMAIN care_plans'
              /\ care_plans'[tasks'[w].careplan_id].status # "pending"
              /\ ~Generating(w) =>
                     care_plans'[tasks'[w].careplan_id].status = "processing"]_vars

C35_Witness ==
    \E w \in Workers :
        /\ Generating(w)
        /\ tasks[w].retries > 0
        /\ care_plans[tasks[w].careplan_id].status = "processing"

-----------------------------------------------------------------------------
(* Properties of process_pending_careplans (checked under SpecSweep and    *)
(* SpecSweepLive)                                                          *)

\* How many tasks a step has published for the id
Published(id) ==
    CopiesIn(TaskMessage(id, 0), broker') - CopiesIn(TaskMessage(id, 0), broker)

\* The first half of C36: a run of the sweep publishes exactly one task for
\* each CarePlan stored as pending, none for a CarePlan in another status,
\* and changes no row.
SweepPublishesPendingOnly ==
    [][process_pending_careplans =>
          /\ care_plans' = care_plans
          /\ \A id \in DOMAIN care_plans :
                Published(id) = IF care_plans[id].status = "pending" THEN 1 ELSE 0]_vars

\* No task is at a raised exception
NothingFailing == \A w \in Workers : tasks[w].pc \notin {"raised", "store_raised"}

\* C36 as stated (second half): the job left pending by a failed enqueue
\* reaches a terminal status once the sweep runs. Stated here in a weaker
\* form that grants that the generation call and the store stop failing at
\* some point.
C36_AsStated ==
    (<>[]NothingFailing) => (care_plans[1].status = "pending" ~> care_plans[1].status \in Terminal)

-----------------------------------------------------------------------------
(* Properties of the warning-level patient match and of the shape of the   *)
(* result (checked under SpecEval)                                         *)

\* The stored Patient with the submitted mrn differs in name or birth date
MismatchedPatient(p) == p.mrn = request.mrn /\ ~PatientInfoEqual(p)

\* The Patient has an Order for the submitted medication created today
OrderedToday(p) ==
    \E o \in orders :
        /\ o.patient = p.mrn
        /\ SameIgnoringCase(o.medication_name, request.medication_name)
        /\ o.created_at = clock

\* C37: when the mrn matches a Patient whose name or date of birth differs,
\* that Patient is the reusable patient and the Order check runs against
\* it: if it has a same-day Order for the medication, the result holds both
\* the PATIENT_INFO_MISMATCH warning and the DUPLICATE_ORDER_SAME_DAY error,
\* in this order, and has errors (the request is blocked), whatever confirm
\* is.
C37_MismatchStillChecksOrders ==
    Evaluated =>
        \A p \in patients :
            MismatchedPatient(p) =>
                /\ validation.reusable_patient = p
                /\ WithCode(validation, PATIENT_INFO_MISMATCH) # {}
                /\ OrderedToday(p) =>
                      /\ \E i \in WithCode(validation, PATIENT_INFO_MISMATCH),
                            j \in WithCode(validation, DUPLICATE_ORDER_SAME_DAY) :
                            /\ i < j
                            /\ validation.items[i].level = "warning"
                            /\ validation.items[j].level = "error"
                      /\ has_errors(validation)

C37_Witness ==
    /\ Evaluated
    /\ request.confirm
    /\ \E p \in patients : MismatchedPatient(p) /\ OrderedToday(p)
    /\ WithCode(validation, PATIENT_INFO_MISMATCH) # {}
    /\ WithCode(validation, DUPLICATE_ORDER_SAME_DAY) # {}


\* The check that produces a finding with the code: 1 Provider, 2 Patient,
\* 3 Order
CheckOf(code) ==
    CASE code = DUPLICATE_NPI_MISMATCH -> 1
      [] code \in {PATIENT_INFO_MISMATCH, POTENTIAL_DUPLICATE_PATIENT} -> 2
      [] code \in {DUPLICATE_ORDER_SAME_DAY, EXISTING_MEDICATION_ORDER} -> 3

\* C38: the result of check_all_duplicates holds at most one finding from
\* each of the three checks, in the order Provider, Patient, Order, hence at
\* most 3 findings, at most 2 errors and at most 2 warnings; a reusable
\* provider is never set together with DUPLICATE_NPI_MISMATCH; an Order
\* finding is present only if a reusable patient is set.
C38_ResultShape ==
    Evaluated =>
        /\ \A i, j \in DOMAIN validation.items :
              i < j => CheckOf(validation.items[i].code) < CheckOf(validation.items[j].code)
        /\ Len(validation.items) <= 3
        /\ Cardinality(WithLevel(validation, "error")) <= 2
        /\ Cardinality(WithLevel(validation, "warning")) <= 2
        /\ validation.reusable_provider # None =>
              WithCode(validation, DUPLICATE_NPI_MISMATCH) = {}
        /\ (\E i \in DOMAIN validation.items : CheckOf(validation.items[i].code) = 3) =>
              validation.reusable_patient # None

C38_Witness ==
    /\ Evaluated
    /\ Len(validation.items) = 3
    /\ Cardinality(WithLevel(validation, "error")) = 2
    /\ validation.reusable_provider = None
    /\ validation.reusable_patient # None

-----------------------------------------------------------------------------
(* Quota of submissions that are not admitted (checked under SpecGate)     *)

\* The submission just handled carried a date of birth that strptime rejects
MalformedDob == strptime(request'.patient_dob) = None

\* C39: a submission that passes the rate limiter consumes quota even if it
\* is not admitted: when it is blocked, answered with a confirmation request
\* or rejected for a malformed date of birth, the minute counter and the day
\* counter are each one higher than before, and nothing was created.
C39_QuotaConsumedWithoutAdmission ==
    [][(\/ IsBlock(response')
        \/ IsConfirmationRequest(response')
        \/ (MalformedDob /\ ~IsRateLimited(response'))) =>
          /\ cache' = [minute |-> cache.minute + 1, day |-> cache.day + 1]
          /\ NothingCreated]_vars

\* A submission with a malformed date of birth took the last call of the
\* minute
C39_Witness ==
    /\ request # NoRequest
    /\ strptime(request.patient_dob) = None
    /\ IsBlock(response)
    /\ cache.minute = MINUTE_LIMIT
    /\ care_plans = <<>>

-----------------------------------------------------------------------------
(* Properties of repeated submissions (checked under SpecResubmit)         *)

\* The response lists an error with the code
HasErrorCode(resp, code) ==
    \E k \in DOMAIN resp.body.errors : resp.body.errors[k].code = code

\* C40 as stated: after a submission has been admitted, a second submission
\* with the same fields on the same day is blocked with
\* DUPLICATE_ORDER_SAME_DAY and creates no second CarePlan, whether confirm
\* is false or true.
C40_AsStated ==
    [][(IsSuccess(response) /\ request' = request /\ ~IsRateLimited(response')) =>
          /\ IsBlock(response')
          /\ HasErrorCode(response', DUPLICATE_ORDER_SAME_DAY)
          /\ care_plans' = care_plans]_vars

====
